---- MODULE Spec2Model ----
(***************************************************************************)
(* Model of the job-tracker pipeline: the offer identity function          *)
(* (services/scraping/src/base_model/job_offer.py), the Notion store       *)
(* gateway (services/storage/src/notion_integration.py) and the offer      *)
(* processor (services/processing/src/offer_processor.py).                 *)
(*                                                                         *)
(* with the JobOffer model of the same file, and the scrapers              *)
(* (services/scraping/src/base_model/job_scraper_base.py, airfrance.py,    *)
(* vie.py).                                                                *)
(*                                                                         *)
(* The specifications share the variables:                                 *)
(*   SpecId        the pure identity function applied to bounded inputs    *)
(*   SpecReduce    the reduction of the digest prefix to five digits       *)
(*   SpecGateway   NotionClient operations called by concurrent tasks      *)
(*   SpecProcessor OfferProcessor.scrape_and_process, single threaded      *)
(*   SpecRetry     OfferProcessor.process_offers called twice on one list  *)
(*   SpecJobOffer  construction, assignment and regenerate_id of a JobOffer*)
(*   SpecFilter    JobScraperBase.filter_job_title                         *)
(*   SpecScraper   JobScraperBase.scrape_async with queued detail pages    *)
(*   SpecVie       VIEJobScraper pagination and parsing                    *)
(*   SpecListing   the paged scrapers (Air France, Welcome to the Jungle): *)
(*                 listing pages to queue, detail pages to JobOffers       *)
(*   SpecBrowser   _setup_browser and _cleanup_browser around scrape_async *)
(*   SpecNotionFormat   JobOffer.to_notion_format on long descriptions     *)
(*   SpecMain      main.py: environment, selection, services, workflow,    *)
(*                 exit code, beside another run writing to the database   *)
(*   SpecMainLive  SpecMain with the fairness of the program's own steps   *)
(* A specification leaves the variables of the others at their idle        *)
(* values.                                                                 *)
(***************************************************************************)
EXTENDS Integers, Sequences, FiniteSets, TLC

VARIABLES
    idArgs,     \* SpecId: the (company, title, url) arguments under test
    id1,        \* SpecId: generate_job_offer_id(company, title, url), NoId before the call
    id2,        \* SpecId: generate_job_offer_id(upper(company), title + "  ", url + "?x=1")
    store,      \* the Notion database: sequence of pages in creation order
    task,       \* SpecGateway: per task, the NotionClient call in progress
    proc,       \* SpecProcessor: the OfferProcessor run (locals of scrape_offers/process_offers)
    sms,        \* SpecProcessor: messages accepted by SMSAPI.send_sms, as the offers they announce
    jo,         \* SpecJobOffer: one JobOffer object, from its constructor arguments on
    flt,        \* SpecFilter: one call of JobScraperBase.filter_job_title
    scr,        \* SpecScraper: one scrape_async run of a scraper that queues detail pages
    vie,        \* SpecVie: one run of the click-to-load scraper (VIEJobScraper)
    lst,        \* SpecListing: one scrape_async run of a paged scraper
    brw,        \* SpecBrowser: the browser resources of the scrape runs
    fmt,        \* SpecNotionFormat: one call of JobOffer.to_notion_format
    main,       \* SpecMain: the process started by main.py
    red         \* SpecReduce: one digest prefix and the identity it is reduced to

idVars == <<idArgs, id1, id2, red>>
gwVars == <<task>>
prVars == <<proc, sms, main>>
joVars == <<jo, fmt>>
scVars == <<flt, scr, vie, lst, brw>>
vars == <<idArgs, id1, id2, store, task, proc, sms, jo, fmt, flt, scr, vie, lst, brw, main, red>>

None == [none |-> TRUE]      \* Python None

-----------------------------------------------------------------------------
(* Strings are sequences of one-character strings, so that strip, lower and *)
(* split act on characters as str.strip, str.lower and str.split do.        *)

Whitespace == {" "}

LowerOf == [c \in {"A", "B", "D", "E", "F", "H", "N", "Q", "X"} |->
              CASE c = "A" -> "a" [] c = "B" -> "b" [] c = "D" -> "d" [] c = "E" -> "e"
                [] c = "F" -> "f"
                [] c = "H" -> "h" [] c = "N" -> "n" [] c = "Q" -> "q" [] c = "X" -> "x"]

UpperOf == [c \in {"a", "b", "c", "d", "e", "f", "h", "i", "n", "q", "r", "x"} |->
              CASE c = "a" -> "A" [] c = "b" -> "B" [] c = "c" -> "C" [] c = "d" -> "D" [] c = "e" -> "E"
                [] c = "f" -> "F" [] c = "h" -> "H" [] c = "i" -> "I" [] c = "n" -> "N" [] c = "q" -> "Q"
                [] c = "r" -> "R" [] c = "x" -> "X"]

\* str.lower()
Lower(s) == [i \in 1..Len(s) |-> IF s[i] \in DOMAIN LowerOf THEN LowerOf[s[i]] ELSE s[i]]

\* str.upper()
Upper(s) == [i \in 1..Len(s) |-> IF s[i] \in DOMAIN UpperOf THEN UpperOf[s[i]] ELSE s[i]]

\* str.strip(): drops leading and trailing whitespace
RECURSIVE LStrip(_)
LStrip(s) == IF s # <<>> /\ Head(s) \in Whitespace THEN LStrip(Tail(s)) ELSE s

RECURSIVE RStrip(_)
RStrip(s) == IF s # <<>> /\ s[Len(s)] \in Whitespace THEN RStrip(SubSeq(s, 1, Len(s) - 1)) ELSE s

Strip(s) == RStrip(LStrip(s))

\* the characters of s as one TLA+ string
RECURSIVE Join(_)
Join(s) == IF s = <<>> THEN "" ELSE Head(s) \o Join(Tail(s))

\* url.split("?")[0]: everything before the first "?"
RECURSIVE BeforeQuery(_)
BeforeQuery(s) == IF s = <<>> \/ Head(s) = "?" THEN <<>> ELSE <<Head(s)>> \o BeforeQuery(Tail(s))

pre_process_url(url) == IF \E i \in 1..Len(url) : url[i] = "?" THEN BeforeQuery(url) ELSE url

-----------------------------------------------------------------------------
(* generate_job_offer_id                                                   *)

\* int(hashlib.sha256(s.encode("utf-8")).hexdigest()[:5], 16) for every
\* combined string the inputs below can produce (values of SHA-256 itself).
Sha256Prefix ==
       ("a|d|h/1" :> 127592)
    @@ ("a|d|h/1?q" :> 667698)
    @@ ("a|d|h/1?q?x=1" :> 276553)
    @@ ("a|d|h/1?x=1" :> 10503)
    @@ ("a|d|h/2" :> 228950)
    @@ ("a|d|h/2?q" :> 609487)
    @@ ("a|d|h/2?q?x=1" :> 69784)
    @@ ("a|d|h/2?x=1" :> 386117)
    @@ ("a|d e|h/1" :> 787836)
    @@ ("a|d e|h/1?q" :> 652664)
    @@ ("a|d e|h/1?q?x=1" :> 1000611)
    @@ ("a|d e|h/1?x=1" :> 308101)
    @@ ("a|d e|h/2" :> 451084)
    @@ ("a|d e|h/2?q" :> 1044084)
    @@ ("a|d e|h/2?q?x=1" :> 221029)
    @@ ("a|d e|h/2?x=1" :> 469242)
    @@ ("a|e|h/1" :> 120195)
    @@ ("a|e|h/1?q" :> 28125)
    @@ ("a|e|h/1?q?x=1" :> 681970)
    @@ ("a|e|h/1?x=1" :> 872285)
    @@ ("a|e|h/2" :> 290578)
    @@ ("a|e|h/2?q" :> 705587)
    @@ ("a|e|h/2?q?x=1" :> 158379)
    @@ ("a|e|h/2?x=1" :> 647905)
    @@ ("ab|d|h/1" :> 750481)
    @@ ("ab|d|h/1?q" :> 1009438)
    @@ ("ab|d|h/1?q?x=1" :> 101466)
    @@ ("ab|d|h/1?x=1" :> 919650)
    @@ ("ab|d|h/2" :> 1010207)
    @@ ("ab|d|h/2?q" :> 991221)
    @@ ("ab|d|h/2?q?x=1" :> 757859)
    @@ ("ab|d|h/2?x=1" :> 777912)
    @@ ("ab|d e|h/1" :> 211315)
    @@ ("ab|d e|h/1?q" :> 966205)
    @@ ("ab|d e|h/1?q?x=1" :> 293583)
    @@ ("ab|d e|h/1?x=1" :> 129042)
    @@ ("ab|d e|h/2" :> 598926)
    @@ ("ab|d e|h/2?q" :> 177944)
    @@ ("ab|d e|h/2?q?x=1" :> 189986)
    @@ ("ab|d e|h/2?x=1" :> 250169)
    @@ ("ab|e|h/1" :> 663350)
    @@ ("ab|e|h/1?q" :> 856198)
    @@ ("ab|e|h/1?q?x=1" :> 804698)
    @@ ("ab|e|h/1?x=1" :> 882299)
    @@ ("ab|e|h/2" :> 553379)
    @@ ("ab|e|h/2?q" :> 753849)
    @@ ("ab|e|h/2?q?x=1" :> 340537)
    @@ ("ab|e|h/2?x=1" :> 168428)
    @@ ("b|d|h/1" :> 592149)
    @@ ("b|d|h/1?q" :> 472589)
    @@ ("b|d|h/1?q?x=1" :> 203910)
    @@ ("b|d|h/1?x=1" :> 1008119)
    @@ ("b|d|h/2" :> 421248)
    @@ ("b|d|h/2?q" :> 660493)
    @@ ("b|d|h/2?q?x=1" :> 360198)
    @@ ("b|d|h/2?x=1" :> 123915)
    @@ ("b|d e|h/1" :> 514191)
    @@ ("b|d e|h/1?q" :> 968254)
    @@ ("b|d e|h/1?q?x=1" :> 892361)
    @@ ("b|d e|h/1?x=1" :> 400824)
    @@ ("b|d e|h/2" :> 99218)
    @@ ("b|d e|h/2?q" :> 505551)
    @@ ("b|d e|h/2?q?x=1" :> 792440)
    @@ ("b|d e|h/2?x=1" :> 841362)
    @@ ("b|e|h/1" :> 475197)
    @@ ("b|e|h/1?q" :> 922875)
    @@ ("b|e|h/1?q?x=1" :> 159601)
    @@ ("b|e|h/1?x=1" :> 812826)
    @@ ("b|e|h/2" :> 218567)
    @@ ("b|e|h/2?q" :> 299063)
    @@ ("b|e|h/2?q?x=1" :> 454977)
    @@ ("b|e|h/2?x=1" :> 752026)
    @@ ("a|d|http://h/1" :> 694814)
    @@ ("a|d|https://h/2" :> 214832)
    @@ ("a|e|http://h/1" :> 88630)
    @@ ("a|e|https://h/2" :> 23788)
    @@ ("a b|d|http://h/1" :> 377057)
    @@ ("a b|d|https://h/2" :> 49847)
    @@ ("a b|e|http://h/1" :> 885172)
    @@ ("a b|e|https://h/2" :> 374991)
    @@ ("|d|http://h/1" :> 866499)
    @@ ("|d|https://h/2" :> 718322)
    @@ ("|e|http://h/1" :> 303941)
    @@ ("|e|https://h/2" :> 961343)
    @@ ("n/a|d|http://h/1" :> 525291)
    @@ ("n/a|d|https://h/2" :> 406059)
    @@ ("n/a|e|http://h/1" :> 97427)
    @@ ("n/a|e|https://h/2" :> 99138)
    @@ ("air france|d|http://h/1" :> 499151)
    @@ ("air france|d|http://h/1?q" :> 901937)
    @@ ("air france|d|https://h/2" :> 278249)
    @@ ("air france|e|http://h/1" :> 223713)
    @@ ("air france|e|http://h/1?q" :> 616439)
    @@ ("air france|e|https://h/2" :> 665842)
    @@ ("a|d|http://h/1?q" :> 602939)
    @@ ("a|e|http://h/1?q" :> 652589)
    @@ ("a b|d|http://h/1?q" :> 810707)
    @@ ("a b|e|http://h/1?q" :> 373799)
    @@ ("air france||http://h/3" :> 812335)
    @@ ("air france|d|http://h/3" :> 67600)
    @@ ("a|d|http://h/3" :> 578445)
    @@ ("a b|d|http://h/3" :> 424932)

IdModulus == 100000

Digit == [d \in 0..9 |-> CASE d = 0 -> "0" [] d = 1 -> "1" [] d = 2 -> "2" [] d = 3 -> "3"
                           [] d = 4 -> "4" [] d = 5 -> "5" [] d = 6 -> "6" [] d = 7 -> "7"
                           [] d = 8 -> "8" [] d = 9 -> "9"]

\* f"{n:05d}" for 0 <= n < 100000, as one string
Format05d(n) == Digit[(n \div 10000) % 10] \o Digit[(n \div 1000) % 10] \o Digit[(n \div 100) % 10]
                \o Digit[(n \div 10) % 10] \o Digit[n % 10]

combined_string(company, title, url) ==
    Join(Lower(Strip(company))) \o "|" \o Join(Lower(Strip(title))) \o "|" \o Join(Lower(Strip(url)))

generate_job_offer_id(company, title, url) ==
    Format05d(Sha256Prefix[combined_string(company, title, url)] % IdModulus)

-----------------------------------------------------------------------------
(* Inputs of the identity function                                         *)

Companies == { <<"a">>, <<"A">>, <<" ", "a">>, <<"a", "b">>, <<"b">> }
Titles    == { <<"d">>, <<"D", " ">>, <<"d", " ", "e">>, <<"e">> }
Urls      == { <<"h", "/", "1">>, <<"h", "/", "1", "?", "q">>, <<"H", "/", "1">>,
               <<"h", "/", "2">>, <<"h", "/", "2", "?", "q">> }

NoId == "-"

-----------------------------------------------------------------------------
(* Validated JobOffers seen by the gateway and the processor.  An offer is *)
(* its title, its offer_id and its source; two offers with different       *)
(* titles and the same offer_id are a collision of the 5-digit identity.   *)

OfferIds == {"00017", "00042"}

AIR_FRANCE == "AIR_FRANCE"
LINKEDIN   == "LINKEDIN"
WELCOME_TO_THE_JUNGLE == "WELCOME_TO_THE_JUNGLE"

JobOffer(title, offer_id, source) == [title |-> title, offer_id |-> offer_id, source |-> source]

GatewayOffers == {JobOffer("T1", "00017", AIR_FRANCE), JobOffer("T2", "00042", AIR_FRANCE)}

\* JobOffer.to_notion_format: the properties the gateway reads back
to_notion_format(o) == [Title |-> o.title, OfferID |-> o.offer_id, Source |-> o.source]

\* NotionClient._extract_title / _extract_offer_id
extract_title(properties) == properties.Title
extract_offer_id(properties) == properties.OfferID

\* a page of the database, as client.pages.create returns it
Page(n, properties) == [id |-> n, properties |-> properties]

\* client.databases.query with an "Offer ID equals" filter, or an "or" of them:
\* the pages whose Offer ID is one of ids
Query(db, ids) == {db[n] : n \in {m \in 1..Len(db) : extract_offer_id(db[m].properties) \in ids}}

\* the set of elements of a sequence
Range(s) == {s[n] : n \in 1..Len(s)}

\* Each task makes one NotionClient call.  Task 1 stands for this run, task 2
\* for another run of the pipeline on the same database; only task 1 calls
\* create_pages_from_job_offers, which process_offers never uses.
Tasks == {1, 2}
BatchTasks == {1}
MaxBatch == 3       \* longest list handed to a batch operation

RECURSIVE SeqsUpTo(_, _)
SeqsUpTo(S, n) == IF n = 0 THEN {<<>>}
                  ELSE LET shorter == SeqsUpTo(S, n - 1)
                       IN  shorter \cup {Append(s, x) : s \in {q \in shorter : Len(q) = n - 1}, x \in S}

\* the database before a behaviour starts: empty, or one page left by an earlier run
InitialStores == {<<>>} \cup {<<Page(1, to_notion_format(o))>> : o \in GatewayOffers}

IdleTask == [op |-> "idle", pc |-> "idle", offers |-> <<>>, ids |-> <<>>, i |-> 0,
             exists |-> FALSE, results |-> <<>>, ret |-> None,
             before |-> 0, outcome |-> "Pending", raised |-> {}, attempted |-> {}, wrote |-> {},
             queries |-> <<>>]

\* task fields that only record history (not read by any action):
\*   before     Len(store) when the call started
\*   outcome    which path create_page took: "Created", "AlreadyExists" or "Failed"
\*   raised     the store requests of this call that raised
\*   attempted  indices of the batch for which client.pages.create was requested
\*   wrote      ids of the pages this call created
\*   queries    the filters of the client.databases.query requests of this call

StoreAt(n) == SubSeq(store, 1, n)

HasRecord(db, offer_id) == Query(db, {offer_id}) # {}

-----------------------------------------------------------------------------
(* NotionClient (services/storage/src/notion_integration.py).  `raises`    *)
(* says whether the request to the Notion API raises.                      *)

\* _check_single_offer_exists: the except branch answers False
check_single_offer_exists(db, offer_id, raises) ==
    IF raises THEN FALSE ELSE Cardinality(Query(db, {offer_id})) > 0

\* _check_multiple_offers_exist: a dict offer_id -> bool; one query for the
\* whole list, none for the empty list; the except branch keeps every False
check_multiple_offers_exist(db, offer_ids, raises) ==
    LET result == [x \in Range(offer_ids) |-> FALSE]
        existing_ids == {extract_offer_id(p.properties) : p \in Query(db, Range(offer_ids))}
    IN  IF offer_ids = <<>> THEN result
        ELSE IF raises THEN result
        ELSE [x \in Range(offer_ids) |-> x \in existing_ids]

\* offer_exists answering that no offer of the list exists
offer_exists_reports_nothing(db, job_offers, raises) ==
    IF job_offers = <<>> THEN <<>>
    ELSE [x \in {job_offers[n].offer_id : n \in 1..Len(job_offers)} |-> FALSE]

\* offer_exists on a list of JobOffers
offer_exists_list(db, job_offers, raises) ==
    IF job_offers = <<>> THEN <<>>
    ELSE check_multiple_offers_exist(db, [n \in 1..Len(job_offers) |-> job_offers[n].offer_id], raises)

\* existence_result.get(offer_id, False)
DictGet(d, k) == IF k \in DOMAIN d THEN d[k] ELSE FALSE

\* pages_create returning the page it built although the request raised
pages_create_keeps_result(db, properties, raises) ==
    LET page == Page(Len(db) + 1, properties)
    IN  [db |-> IF raises THEN db ELSE Append(db, page), result |-> page]

\* the try/except around client.pages.create in create_page: the new database
\* and the value create_page returns
pages_create(db, properties, raises) ==
    IF raises THEN [db |-> db, result |-> None]
    ELSE LET page == Page(Len(db) + 1, properties)
         IN  [db |-> Append(db, page), result |-> page]

\* create_page(properties, None): the title test, then the request, no existence check
create_page_unchecked(db, properties, raises) ==
    IF extract_title(properties) = "" THEN [db |-> db, result |-> None]
    ELSE pages_create(db, properties, raises)

\* create_page_from_job_offer(job_offer), up to the title test of create_page
CallCreatePageFromJobOffer(t, o) ==
    /\ task[t].pc = "idle"
    /\ task' = [task EXCEPT ![t] =
                 IF extract_title(to_notion_format(o)) = ""
                 THEN [IdleTask EXCEPT !.op = "create_page_from_job_offer", !.offers = <<o>>,
                                       !.before = Len(store), !.pc = "done", !.outcome = "Failed"]
                 ELSE [IdleTask EXCEPT !.op = "create_page_from_job_offer", !.offers = <<o>>,
                                       !.before = Len(store), !.pc = "check"]]
    /\ UNCHANGED <<store, idVars, prVars, joVars, scVars>>

\* create_page: `if job_offer and self.offer_exists(job_offer)` -> return None
CheckBeforeCreate(t) ==
    /\ task[t].op = "create_page_from_job_offer"
    /\ task[t].pc = "check"
    /\ \E raises \in BOOLEAN :
         LET found == check_single_offer_exists(store, task[t].offers[1].offer_id, raises)
             r == IF raises THEN task[t].raised \cup {"check"} ELSE task[t].raised
         IN  task' = [task EXCEPT ![t] =
                       IF found
                       THEN [@ EXCEPT !.exists = TRUE, !.raised = r, !.pc = "done",
                                      !.ret = None, !.outcome = "AlreadyExists"]
                       ELSE [@ EXCEPT !.exists = FALSE, !.raised = r, !.pc = "write"]]
    /\ UNCHANGED <<store, idVars, prVars, joVars, scVars>>

\* create_page: client.pages.create(**payload), result or None
WritePage(t) ==
    /\ task[t].op = "create_page_from_job_offer"
    /\ task[t].pc = "write"
    /\ \E raises \in BOOLEAN :
         LET w == pages_create(store, to_notion_format(task[t].offers[1]), raises)
         IN  /\ store' = w.db
             /\ task' = [task EXCEPT ![t] =
                          IF raises
                          THEN [@ EXCEPT !.pc = "done", !.ret = w.result, !.outcome = "Failed",
                                         !.raised = @ \cup {"create"}]
                          ELSE [@ EXCEPT !.pc = "done", !.ret = w.result, !.outcome = "Created",
                                         !.wrote = {w.result.id}]]
    /\ UNCHANGED <<idVars, prVars, joVars, scVars>>

\* the filter _check_multiple_offers_exist builds: {"property": "Offer ID",
\* "rich_text": {"equals": id}} for one id, {"or": [one such clause for each
\* offer_id in offer_ids]} otherwise; clauses are the ids compared with
filter_condition(offer_ids) ==
    IF Len(offer_ids) = 1
    THEN [kind |-> "equals", clauses |-> <<offer_ids[1]>>]
    ELSE [kind |-> "or", clauses |-> offer_ids]

\* one equality query for each offer id
queries_per_offer_id(offer_ids) ==
    [n \in 1..Len(offer_ids) |-> [kind |-> "equals", clauses |-> <<offer_ids[n]>>]]

\* the client.databases.query requests of _check_multiple_offers_exist:
\* `if not offer_ids: return result`, else one request with filter_condition
queries_of(offer_ids) ==
    IF offer_ids = <<>> THEN <<>> ELSE <<filter_condition(offer_ids)>>

\* _check_multiple_offers_exist(offer_ids): one request, answered at once
CheckMultipleOffersExist(t, offer_ids) ==
    /\ task[t].pc = "idle"
    /\ \E raises \in BOOLEAN :
         /\ raises => offer_ids # <<>>
         /\ task' = [task EXCEPT ![t] =
                      [IdleTask EXCEPT !.op = "check_multiple_offers_exist", !.ids = offer_ids,
                                       !.before = Len(store), !.pc = "done",
                                       !.raised = IF raises THEN {"check"} ELSE {},
                                       !.queries = queries_of(offer_ids),
                                       !.ret = check_multiple_offers_exist(store, offer_ids, raises)]]
    /\ UNCHANGED <<store, idVars, prVars, joVars, scVars>>

\* create_pages_from_job_offers(job_offers): `if not job_offers: return []`
CallCreatePagesFromJobOffers(t, job_offers) ==
    /\ task[t].pc = "idle"
    /\ task' = [task EXCEPT ![t] =
                 IF job_offers = <<>>
                 THEN [IdleTask EXCEPT !.op = "create_pages_from_job_offers", !.before = Len(store),
                                       !.pc = "done", !.ret = <<>>, !.exists = <<>>]
                 ELSE [IdleTask EXCEPT !.op = "create_pages_from_job_offers", !.before = Len(store),
                                       !.offers = job_offers, !.pc = "batch_check"]]
    /\ UNCHANGED <<store, idVars, prVars, joVars, scVars>>

\* create_pages_from_job_offers: existence_result = self.offer_exists(job_offers)
BatchCheck(t) ==
    /\ task[t].op = "create_pages_from_job_offers"
    /\ task[t].pc = "batch_check"
    /\ \E raises \in BOOLEAN :
         task' = [task EXCEPT ![t] =
                   [@ EXCEPT !.exists = offer_exists_list(store, task[t].offers, raises),
                             !.raised = IF raises THEN {"check"} ELSE {},
                             !.i = 1, !.pc = "loop"]]
    /\ UNCHANGED <<store, idVars, prVars, joVars, scVars>>

\* BatchStep leaving the loop at the first write that fails
BatchStepStopsAtFailure(t) ==
    /\ task[t].op = "create_pages_from_job_offers"
    /\ task[t].pc = "loop"
    /\ LET i == task[t].i
           job_offer == task[t].offers[i]
           last == i = Len(task[t].offers)
       IN  IF DictGet(task[t].exists, job_offer.offer_id)
           THEN /\ task' = [task EXCEPT ![t] =
                             [@ EXCEPT !.results = Append(@, None), !.i = i + 1,
                                       !.pc = IF last THEN "done" ELSE "loop",
                                       !.ret = IF last THEN Append(task[t].results, None) ELSE None]]
                /\ store' = store
           ELSE \E raises \in BOOLEAN :
                  LET w == create_page_unchecked(store, to_notion_format(job_offer), raises)
                  IN  /\ store' = w.db
                      /\ task' = [task EXCEPT ![t] =
                                   [@ EXCEPT !.results = Append(@, w.result), !.i = i + 1,
                                             !.attempted = @ \cup {i},
                                             !.raised = IF raises THEN @ \cup {"create"} ELSE @,
                                             !.wrote = IF raises THEN @ ELSE @ \cup {w.result.id},
                                             !.pc = IF last \/ raises THEN "done" ELSE "loop",
                                             !.ret = IF last \/ raises THEN Append(task[t].results, w.result)
                                                     ELSE None]]
    /\ UNCHANGED <<idVars, prVars, joVars, scVars>>

\* create_pages_from_job_offers: one iteration of `for job_offer in job_offers`,
\* and `return results` after the last one
BatchStep(t) ==
    /\ task[t].op = "create_pages_from_job_offers"
    /\ task[t].pc = "loop"
    /\ LET i == task[t].i
           job_offer == task[t].offers[i]
           last == i = Len(task[t].offers)
       IN  IF DictGet(task[t].exists, job_offer.offer_id)
           THEN /\ task' = [task EXCEPT ![t] =
                             [@ EXCEPT !.results = Append(@, None), !.i = i + 1,
                                       !.pc = IF last THEN "done" ELSE "loop",
                                       !.ret = IF last THEN Append(task[t].results, None) ELSE None]]
                /\ store' = store
           ELSE \E raises \in BOOLEAN :
                  LET w == create_page_unchecked(store, to_notion_format(job_offer), raises)
                  IN  /\ store' = w.db
                      /\ task' = [task EXCEPT ![t] =
                                   [@ EXCEPT !.results = Append(@, w.result), !.i = i + 1,
                                             !.attempted = @ \cup {i},
                                             !.raised = IF raises THEN @ \cup {"create"} ELSE @,
                                             !.wrote = IF raises THEN @ ELSE @ \cup {w.result.id},
                                             !.pc = IF last THEN "done" ELSE "loop",
                                             !.ret = IF last THEN Append(task[t].results, w.result)
                                                     ELSE None]]
    /\ UNCHANGED <<idVars, prVars, joVars, scVars>>

-----------------------------------------------------------------------------
(* The identity function applied to one (company, title, url) and to the   *)
(* same triple in upper case, with trailing spaces and a query string.     *)

GenerateId ==
    /\ id1 = NoId
    /\ id1' = generate_job_offer_id(idArgs.company, idArgs.title, idArgs.url)
    /\ UNCHANGED <<idArgs, id2, red, store, gwVars, prVars, joVars, scVars>>

GenerateIdOfVariant ==
    /\ id2 = NoId
    /\ id2' = generate_job_offer_id(Upper(idArgs.company), idArgs.title \o <<" ", " ">>,
                                    idArgs.url \o <<"?", "x", "=", "1">>)
    /\ UNCHANGED <<idArgs, id1, red, store, gwVars, prVars, joVars, scVars>>

-----------------------------------------------------------------------------
(* The last two lines of generate_job_offer_id:                            *)
(*   hash_int = int(hash_hex[:5], 16); offer_id = f"{hash_int % 100000:05d}" *)

PrefixLength == 5       \* hash_hex[:5]

HexDigits == <<"0", "1", "2", "3", "4", "5", "6", "7", "8", "9", "a", "b", "c", "d", "e", "f">>

HexValue(c) == CHOOSE v \in 0..15 : HexDigits[v + 1] = c

\* int(s, 16)
RECURSIVE IntBase16(_)
IntBase16(s) == IF s = <<>> THEN 0 ELSE IntBase16(SubSeq(s, 1, Len(s) - 1)) * 16 + HexValue(s[Len(s)])

\* the number of values of a prefix of six hexadecimal characters
PrefixSpaceOfSixCharacters == 16 ^ (PrefixLength + 1)

\* the number of values int(hash_hex[:5], 16) can take
PrefixSpace == 16 ^ PrefixLength

\* the prefix values that hash_int % 100000 sends to one identity: they are
\* identity, identity + 100000, identity + 200000, ... below PrefixSpace
PrefixesOf(identity) ==
    {hash_int \in {identity + k * IdModulus : k \in 0..(PrefixSpace \div IdModulus)} :
        hash_int < PrefixSpace /\ hash_int % IdModulus = identity}

\* the hexadecimal characters the prefixes under test are made of
PrefixCharacters == {"0", "1", "7", "b", "f"}

\* red: hash_hex the first characters of the digest; hash_int, offer_id the
\*      locals of generate_job_offer_id, -1 and NoId before they are assigned
IdleReduce == [hash_hex |-> <<>>, hash_int |-> -1, offer_id |-> NoId]

ReducePrefix ==
    /\ red.hash_hex # <<>>
    /\ red.offer_id = NoId
    /\ LET hash_int == IntBase16(SubSeq(red.hash_hex, 1, PrefixLength))
       IN  red' = [red EXCEPT !.hash_int = hash_int, !.offer_id = Format05d(hash_int % IdModulus)]
    /\ UNCHANGED <<idArgs, id1, id2, store, gwVars, prVars, joVars, scVars>>

-----------------------------------------------------------------------------
(* The process environment read by os.getenv (main.py, offer_processor.py, *)
(* linked.py): the set of the variables that are set and not empty.        *)

EnvironmentVariables == {"DATABASE_ID", "NOTION_API", "FREE_MOBILE_USER_ID", "FREE_MOBILE_API_KEY",
                         "LINKEDIN_EMAIL", "LINKEDIN_PASSWORD"}

\* NotionClient.__init__: a ValueError, or the two attributes of the object
NotionClientInit(notion_api_key, database_id) ==
    IF notion_api_key = "" \/ database_id = ""
    THEN [ok |-> FALSE, value |-> [database_id |-> "", client |-> [auth |-> ""]]]
    ELSE [ok |-> TRUE, value |-> [database_id |-> database_id, client |-> [auth |-> notion_api_key]]]

\* main: pc            "env", "select", "init", "workflow", then "exited"
\*       environ       the environment variables that are set
\*       scrapers      args.scrapers, lower-cased, stripped and split at ","
\*       selected_scraper_ids, notion_client   locals of main.py
\*       exit_code     the exit status of the process, -1 while it runs
\*       valid_selection  whether parse_scraper_selection returned (history)
\*       created_at    Len(store) when NotionClient was constructed (history)
\*       others        pages another run has created since this one started
InitialMain(environ, scrapers) ==
    [pc |-> "env", environ |-> environ, scrapers |-> scrapers, selected_scraper_ids |-> <<>>,
     notion_client |-> NotionClientInit("", "").value, exit_code |-> -1,
     valid_selection |-> FALSE, created_at |-> 0, others |-> 0]

IdleMain == [InitialMain(EnvironmentVariables, <<>>) EXCEPT !.pc = "idle"]

\* LinkedInJobScraper._handle_login_if_required: both variables are needed
LinkedInLogin(environ) == {"LINKEDIN_EMAIL", "LINKEDIN_PASSWORD"} \subseteq environ

-----------------------------------------------------------------------------
(* OfferProcessor (services/processing/src/offer_processor.py)             *)

\* get_scrapers_config(): the source each configured scraper id yields, and `enabled`
ScrapersConfig ==
    [sid \in {"1", "2", "3", "4", "5", "6", "7"} |->
        [enabled |-> TRUE,
         source  |-> CASE sid = "1" -> "BUSINESS_FRANCE" [] sid = "2" -> AIR_FRANCE
                       [] sid = "3" -> "APPLE" [] sid \in {"4", "5"} -> WELCOME_TO_THE_JUNGLE
                       [] sid \in {"6", "7"} -> LINKEDIN]]

\* scraper ids a run selects from: a notified source, a source that is not
\* notified, and an id that is not configured
SelectableIds == {"2", "6", "9"}

MaxScraped == 2     \* longest list one scraper.scrape() returns

\* the offers a source can yield
OffersOf(source) ==
    IF source = AIR_FRANCE
    THEN {JobOffer("T1", "00017", source), JobOffer("T2", "00017", source), JobOffer("T1", "00042", source)}
    ELSE {JobOffer("T1", "00017", source)}

\* selections: non-empty lists of distinct selectable ids
Selections == {s \in SeqsUpTo(SelectableIds, Cardinality(SelectableIds)) :
                 /\ s # <<>>
                 /\ \A m, n \in 1..Len(s) : m # n => s[m] # s[n]}

\* what became of one selected scraper: not run (`continue` before the try),
\* scrape() raised, or scrape() returned a list
NotRun == [status |-> "NotRun", offers |-> <<>>]
Failed == [status |-> "Failed", offers |-> <<>>]
Returned(offers) == [status |-> "Returned", offers |-> offers]

InitialProc(selected) ==
    [pc |-> "scrape", selected_scrapers |-> selected, k |-> 1, all_offers |-> <<>>,
     scraped_offers |-> <<>>, existence_map |-> <<>>, j |-> 0,
     runs |-> <<>>, outcome |-> <<>>, run |-> 1, checkRaised |-> FALSE, checked_at |-> 0,
     first |-> [store |-> 0, sms |-> 0, outcome |-> <<>>, completed |-> FALSE]]

IdleProc == [InitialProc(<<"2">>) EXCEPT !.pc = "idle"]

\* proc fields that only record history:
\*   runs     per selected scraper, in order: NotRun, Failed or Returned(list)
\*   outcome  per processed offer, in order: "AlreadyExists", "Created" or "Failed"
\*   run      1 in the first call of process_offers, 2 in the second
\*   checkRaised  whether the request of offer_exists raised in this call
\*   checked_at   Len(store) when offer_exists was called
\*   first    at the start of the second call: the number of pages and of SMS,
\*            the outcomes of the first call, and whether it returned
\*            (completed) or raised

\* ScrapeSource in which a scrape() that raises ends the loop of scrape_offers
ScrapeSourceAbortsOnFailure ==
    /\ proc.pc = "scrape"
    /\ LET scraper_id == proc.selected_scrapers[proc.k]
           last == proc.k = Len(proc.selected_scrapers)
           After(all, run, stop) ==
               [proc EXCEPT !.all_offers = all, !.runs = Append(@, run), !.k = @ + 1,
                            !.scraped_offers = IF stop THEN all ELSE @,
                            !.pc = IF ~stop THEN "scrape" ELSE IF all # <<>> THEN "process" ELSE "done"]
       IN  IF scraper_id \notin DOMAIN ScrapersConfig
           THEN proc' = After(proc.all_offers, NotRun, last)
           ELSE IF ~ScrapersConfig[scraper_id].enabled
           THEN proc' = After(proc.all_offers, NotRun, last)
           ELSE \/ proc' = After(proc.all_offers, Failed, TRUE)
                \/ \E offers \in SeqsUpTo(OffersOf(ScrapersConfig[scraper_id].source), MaxScraped) :
                     proc' = After(proc.all_offers \o offers, Returned(offers), last)
    /\ UNCHANGED <<sms, store, main, idVars, gwVars, joVars, scVars>>

\* scrape_offers: one iteration of `for scraper_id in self.selected_scrapers`;
\* after the last one, `self.scraped_offers = all_offers`, and
\* scrape_and_process goes on to process_offers `if scraped`
ScrapeSource ==
    /\ proc.pc = "scrape"
    /\ LET scraper_id == proc.selected_scrapers[proc.k]
           last == proc.k = Len(proc.selected_scrapers)
           After(all, run) ==
               [proc EXCEPT !.all_offers = all, !.runs = Append(@, run), !.k = @ + 1,
                            !.scraped_offers = IF last THEN all ELSE @,
                            !.pc = IF ~last THEN "scrape" ELSE IF all # <<>> THEN "process" ELSE "done"]
       IN  IF scraper_id \notin DOMAIN ScrapersConfig
           THEN proc' = After(proc.all_offers, NotRun)
           ELSE IF ~ScrapersConfig[scraper_id].enabled
           THEN proc' = After(proc.all_offers, NotRun)
           ELSE \/ proc' = After(proc.all_offers, Failed)      \* scraper.scrape() raises
                \/ /\ ScrapersConfig[scraper_id].source = LINKEDIN => LinkedInLogin(main.environ)
                   /\ \E offers \in SeqsUpTo(OffersOf(ScrapersConfig[scraper_id].source), MaxScraped) :
                        proc' = After(proc.all_offers \o offers, Returned(offers))
    /\ UNCHANGED <<sms, store, main, idVars, gwVars, joVars, scVars>>

\* ProcessCheck answering from the database as it was when NotionClient was
\* constructed (a table loaded once)
ProcessCheckFromPreload ==
    /\ proc.pc = "process"
    /\ \E raises \in BOOLEAN :
         proc' = [proc EXCEPT !.existence_map = offer_exists_list(StoreAt(main.created_at), proc.scraped_offers, raises),
                              !.checkRaised = raises, !.j = 1, !.pc = "loop",
                              !.checked_at = Len(store)]
    /\ UNCHANGED <<sms, store, main, idVars, gwVars, joVars, scVars>>

\* process_offers: existence_result = self.notion_client.offer_exists(offers_to_process)
ProcessCheck ==
    /\ proc.pc = "process"
    /\ \E raises \in BOOLEAN :
         proc' = [proc EXCEPT !.existence_map = offer_exists_list(store, proc.scraped_offers, raises),
                              !.checkRaised = raises, !.j = 1, !.pc = "loop",
                              !.checked_at = Len(store)]
    /\ UNCHANGED <<sms, store, main, idVars, gwVars, joVars, scVars>>

\* _process_new_offer: sources whose new offers are announced by SMS
Notified(source) == source \notin {LINKEDIN, WELCOME_TO_THE_JUNGLE}

\* process_offers: one iteration of `for offer in offers_to_process`: skip an
\* offer the existence map reports, else _process_new_offer (send_sms, then
\* create_page_from_job_offer); an exception of send_sms leaves process_offers
\* as ValueError
ProcessOffer ==
    /\ proc.pc = "loop"
    /\ LET j == proc.j
           offer == proc.scraped_offers[j]
           last == j = Len(proc.scraped_offers)
           After(outcome) == [proc EXCEPT !.outcome = Append(@, outcome), !.j = j + 1,
                                          !.pc = IF last THEN "done" ELSE "loop"]
       IN  IF DictGet(proc.existence_map, offer.offer_id)
           THEN /\ proc' = After("AlreadyExists")
                /\ UNCHANGED <<sms, store>>
           ELSE \E smsRaises, checkRaises, createRaises \in BOOLEAN :
                  IF Notified(offer.source) /\ smsRaises
                  THEN /\ proc' = [proc EXCEPT !.pc = "error"]
                       /\ UNCHANGED <<sms, store>>
                  ELSE /\ sms' = IF Notified(offer.source)
                                 THEN Append(sms, [run |-> proc.run, j |-> j, offer |-> offer]) ELSE sms
                       /\ IF check_single_offer_exists(store, offer.offer_id, checkRaises)
                          THEN /\ proc' = After("AlreadyExists")
                               /\ store' = store
                          ELSE LET w == create_page_unchecked(store, to_notion_format(offer), createRaises)
                               IN  /\ store' = w.db
                                   /\ proc' = After(IF w.result = None THEN "Failed" ELSE "Created")
    /\ UNCHANGED <<main, idVars, gwVars, joVars, scVars>>

MaxRetried == 2     \* longest list handed to process_offers(offers)

\* the offers of the lists handed to process_offers(offers)
RetryOffers == OffersOf(AIR_FRANCE) \cup OffersOf(LINKEDIN)

\* process_offers called a second time, on the list of the first call, which
\* returned or raised (a retried run); an empty list returns before any request
ProcessOffersAgain ==
    /\ proc.pc \in {"done", "error"}
    /\ proc.run = 1
    /\ proc.scraped_offers # <<>>
    /\ proc' = [proc EXCEPT !.run = 2, !.pc = "process", !.j = 0, !.existence_map = <<>>,
                            !.checkRaised = FALSE, !.outcome = <<>>,
                            !.first = [store |-> Len(store), sms |-> Len(sms), outcome |-> proc.outcome,
                                       completed |-> proc.pc = "done"]]
    /\ UNCHANGED <<sms, store, main, idVars, gwVars, joVars, scVars>>

-----------------------------------------------------------------------------
(* JobOffer (services/scraping/src/base_model/job_offer.py): the pydantic  *)
(* model, its field validators in the order they are declared, and the     *)
(* model validator, which also runs on assignment (validate_assignment).   *)

TitleMaxLength == 500
CompanyMaxLength == 200
LocationMaxLength == 200
OfferIdMaxLength == 5

\* the outcome of validating one value
Invalid == [ok |-> FALSE, value |-> <<>>]
Valid(v) == [ok |-> TRUE, value |-> v]

\* a str field under str_strip_whitespace with min_length and max_length
StrField(v, min_length, max_length) ==
    LET w == Strip(v)
    IN  IF Len(w) >= min_length /\ Len(w) <= max_length THEN Valid(w) ELSE Invalid

\* v.replace("-", " ").replace(",", " ").replace(".", " ")
ReplaceBySpace(v) == [i \in 1..Len(v) |-> IF v[i] \in {"-", ",", "."} THEN " " ELSE v[i]]

\* " ".join(v.split())
RECURSIVE CollapseSpaces(_)
CollapseSpaces(v) ==
    IF Len(v) < 2 THEN v
    ELSE IF v[1] \in Whitespace /\ v[2] \in Whitespace THEN CollapseSpaces(Tail(v))
    ELSE <<v[1]>> \o CollapseSpaces(Tail(v))

SplitJoin(v) == CollapseSpaces(Strip(v))

\* validate_not_na: whether the value is accepted
validate_not_na(v) == Upper(v) # <<"N", "/", "A">>

clean_notion_select_fields(v) == SplitJoin(ReplaceBySpace(v))

\* normalize_fields without str.lower()
normalize_fields_keeps_case(v) == SplitJoin(Strip(v))

normalize_fields(v) == SplitJoin(Lower(Strip(v)))

\* str.startswith
StartsWith(v, prefix) == Len(v) >= Len(prefix) /\ SubSeq(v, 1, Len(prefix)) = prefix

\* validate_url on the stripped value
validate_url(v) ==
    LET w == Strip(v)
    IN  IF StartsWith(w, <<"h", "t", "t", "p", ":", "/", "/">>)
           \/ StartsWith(w, <<"h", "t", "t", "p", "s", ":", "/", "/">>)
        THEN Valid(pre_process_url(w)) ELSE Invalid

\* title: the str constraints, then validate_not_na
validate_title(v) ==
    LET c == StrField(v, 1, TitleMaxLength)
    IN  IF c.ok /\ validate_not_na(c.value) THEN c ELSE Invalid

\* company: the str constraints, then validate_not_na,
\* clean_notion_select_fields and normalize_fields
validate_company(v) ==
    LET c == StrField(v, 1, CompanyMaxLength)
    IN  IF c.ok /\ validate_not_na(c.value)
        THEN Valid(normalize_fields(clean_notion_select_fields(c.value))) ELSE Invalid

\* location: as company
validate_location(v) ==
    LET c == StrField(v, 1, LocationMaxLength)
    IN  IF c.ok /\ validate_not_na(c.value)
        THEN Valid(normalize_fields(clean_notion_select_fields(c.value))) ELSE Invalid

\* offer_id: default "", max_length=5
validate_offer_id(v) == StrField(v, 0, OfferIdMaxLength)

\* the validation of one named field
validate_field(name, v) ==
    CASE name = "title" -> validate_title(v)
      [] name = "company" -> validate_company(v)
      [] name = "location" -> validate_location(v)
      [] name = "url" -> validate_url(v)
      [] name = "offer_id" -> validate_offer_id(v)

\* the characters of f"{n:05d}"
Digits05d(n) == <<Digit[(n \div 10000) % 10], Digit[(n \div 1000) % 10], Digit[(n \div 100) % 10],
                  Digit[(n \div 10) % 10], Digit[n % 10]>>

\* generate_job_offer_id, as the characters of the string it returns
offer_id_chars(company, title, url) ==
    Digits05d(Sha256Prefix[combined_string(company, title, url)] % IdModulus)

AsciiDigits == {"0", "1", "2", "3", "4", "5", "6", "7", "8", "9"}

\* characters for which str.isdigit() is True: the ASCII digits and the other
\* Unicode digits, of which ARABIC-INDIC DIGIT THREE and SUPERSCRIPT TWO
IsDigitChars == AsciiDigits \cup {"U+0663", "U+00B2"}

\* str.isdigit()
isdigit(v) == v # <<>> /\ \A i \in 1..Len(v) : v[i] \in IsDigitChars

\* the model validator generate_offer_id (mode="after")
generate_offer_id(o) ==
    LET offer_id == IF o.offer_id = <<>> THEN offer_id_chars(o.company, o.title, o.url) ELSE o.offer_id
    IN  IF Len(offer_id) # 5 \/ ~isdigit(offer_id) THEN Invalid
        ELSE Valid([o EXCEPT !.offer_id = offer_id])

\* the fields of a JobOffer that the model follows
Fields(title, company, location, url, offer_id) ==
    [title |-> title, company |-> company, location |-> location, url |-> url, offer_id |-> offer_id]

\* JobOffer(**args): every field validated, then the model validator
new_job_offer(args) ==
    LET t == validate_title(args.title)
        c == validate_company(args.company)
        l == validate_location(args.location)
        u == validate_url(args.url)
        i == validate_offer_id(args.offer_id)
    IN  IF t.ok /\ c.ok /\ l.ok /\ u.ok /\ i.ok
        THEN generate_offer_id(Fields(t.value, c.value, l.value, u.value, i.value))
        ELSE Invalid

\* constructor arguments
TitleArgs    == { <<"d">>, <<" ", "D">>, <<"e">>, <<"N", "/", "A">>, <<"n", "/", "a", " ">>, <<>> }
CompanyArgs  == { <<"a">>, <<"A", "-", "b">>, <<" ", "A", ".", " ", "b">>, <<"-">>,
                  <<"N", "/", "A", ".">>, <<"n", "/", "a">> }
LocationArgs == { <<"b">>, <<"B", ",", " ", "b">>, <<",">> }
UrlArgs      == { <<"h", "t", "t", "p", ":", "/", "/", "h", "/", "1">>,
                  <<"h", "t", "t", "p", ":", "/", "/", "h", "/", "1", "?", "q">>,
                  <<"h", "t", "t", "p", "s", ":", "/", "/", "h", "/", "2">>,
                  <<"h", "/", "1">> }
OfferIdArgs  == { <<>>, <<"1", "2", "3", "4", "5">>, <<"1", "2", "3", "4">>,
                  <<"1", "2", "U+0663", "4", "5">>, <<"1", "2", "3", "4", "5", "6">> }

\* jo: state  "args" before the constructor ran, then "valid" or "rejected";
\*     fields the constructor arguments, then the fields of the object;
\*     op     the last operation (history)
\*     before the fields the last operation started from (history)
\*     returned  what the last regenerate_id returned (history)
\*     auto   offer_id was generated from the company, title and url the
\*            object holds now (history)
\*     wasAuto  auto when the last regenerate_id started (history)
NoFields == Fields(<<>>, <<>>, <<>>, <<>>, <<>>)

ArgsJobOffer(args) ==
    [state |-> "args", fields |-> args, op |-> "none", before |-> NoFields, returned |-> <<>>, auto |-> FALSE,
     wasAuto |-> FALSE]

IdleJobOffer == [ArgsJobOffer(NoFields) EXCEPT !.state = "idle"]

\* JobOffer(...): a ValidationError leaves no object
Construct ==
    /\ jo.state = "args"
    /\ LET r == new_job_offer(jo.fields)
       IN  jo' = IF r.ok THEN [jo EXCEPT !.state = "valid", !.fields = r.value, !.op = "construct",
                                         !.before = jo.fields,
                                         !.auto = validate_offer_id(jo.fields.offer_id).value = <<>>]
                 ELSE [jo EXCEPT !.state = "rejected", !.op = "construct", !.before = jo.fields]
    /\ UNCHANGED <<fmt, store, idVars, gwVars, prVars, scVars>>

\* JobOffer(title=o.title, company=o.company, location=o.location, url=o.url,
\* offer_id=o.offer_id) for a validated o: the constructor on values that
\* already went through it
Revalidate ==
    /\ jo.state = "valid"
    /\ jo.op # "revalidate"
    /\ LET r == new_job_offer(jo.fields)
       IN  jo' = IF r.ok THEN [jo EXCEPT !.fields = r.value, !.op = "revalidate", !.before = jo.fields]
                 ELSE [jo EXCEPT !.state = "rejected", !.op = "revalidate", !.before = jo.fields]
    /\ UNCHANGED <<fmt, store, idVars, gwVars, prVars, scVars>>

\* offer.<name> = v under validate_assignment: the field is validated, then
\* the model validator runs on the updated object; a ValidationError of the
\* field leaves the object as it was
SetAttr(name, v) ==
    /\ jo.state = "valid"
    /\ LET f == validate_field(name, v)
           r == generate_offer_id([jo.fields EXCEPT ![name] = f.value])
       IN  jo' = IF f.ok /\ r.ok
                 THEN [jo EXCEPT !.fields = r.value, !.op = "assign", !.before = jo.fields,
                                 !.auto = @ /\ r.value = jo.fields]
                 ELSE [jo EXCEPT !.op = "assign_rejected", !.before = jo.fields]
    /\ UNCHANGED <<fmt, store, idVars, gwVars, prVars, scVars>>

\* regenerate_id: self.offer_id = generate_job_offer_id(company, title, url),
\* an assignment of offer_id
regenerate_id_returns_stored ==
    /\ jo.state = "valid"
    /\ LET new_id == offer_id_chars(jo.fields.company, jo.fields.title, jo.fields.url)
           f == validate_offer_id(new_id)
           r == generate_offer_id([jo.fields EXCEPT !.offer_id = f.value])
       IN  jo' = IF f.ok /\ r.ok
                 THEN [jo EXCEPT !.fields = r.value, !.op = "regenerate_id", !.before = jo.fields,
                                 !.returned = jo.fields.offer_id, !.wasAuto = jo.auto, !.auto = TRUE]
                 ELSE [jo EXCEPT !.op = "assign_rejected", !.before = jo.fields]
    /\ UNCHANGED <<fmt, store, idVars, gwVars, prVars, scVars>>

regenerate_id ==
    /\ jo.state = "valid"
    /\ LET new_id == offer_id_chars(jo.fields.company, jo.fields.title, jo.fields.url)
           f == validate_offer_id(new_id)
           r == generate_offer_id([jo.fields EXCEPT !.offer_id = f.value])
       IN  jo' = IF f.ok /\ r.ok
                 THEN [jo EXCEPT !.fields = r.value, !.op = "regenerate_id", !.before = jo.fields,
                                 !.returned = new_id, !.wasAuto = jo.auto, !.auto = TRUE]
                 ELSE [jo EXCEPT !.op = "assign_rejected", !.before = jo.fields]
    /\ UNCHANGED <<fmt, store, idVars, gwVars, prVars, scVars>>

-----------------------------------------------------------------------------
(* JobScraperBase.filter_job_title (base_model/job_scraper_base.py)        *)

\* Python `a in b` on strings
IsSubstring(a, b) == \E i \in 0..(Len(b) - Len(a)) : SubSeq(b, i + 1, i + Len(a)) = a

\* an Optional[List[str]] argument: None or a list
NotGiven == [given |-> FALSE, list |-> <<>>]
Given(list) == [given |-> TRUE, list |-> list]

\* any(...) comparing the keyword and the title as they are written
AnyKeywordInSameCase(filters, job_title) ==
    \E n \in 1..Len(filters) : IsSubstring(filters[n], job_title)

\* any(keyword.lower() in job_title.lower() for keyword in filters)
AnyKeywordIn(filters, job_title) ==
    \E n \in 1..Len(filters) : IsSubstring(Lower(filters[n]), Lower(job_title))

\* filter_job_title: True when the offer is to be skipped
filter_job_title(self_include, self_exclude, job_title, include_filters, exclude_filters) ==
    LET active_include_filters == IF include_filters.given THEN include_filters.list ELSE self_include
        active_exclude_filters == IF exclude_filters.given THEN exclude_filters.list ELSE self_exclude
    IN  IF active_include_filters # <<>> /\ ~AnyKeywordIn(active_include_filters, job_title) THEN TRUE
        ELSE IF active_exclude_filters # <<>> /\ AnyKeywordIn(active_exclude_filters, job_title) THEN TRUE
        ELSE FALSE

MaxFilters == 2     \* longest include or exclude list

\* titles and keywords the filter is applied to; the empty keyword is in every title
FilterTitles == { <<"D", "a", "b">>, <<"b", "e", "d">>, <<"a">>, <<>> }
Keywords == { <<"d", "A">>, <<"B">>, <<>> }
FilterLists == SeqsUpTo(Keywords, MaxFilters)

\* self.include_filters / self.exclude_filters of the scraper (`include_filters or []`)
OwnFilters == { <<>>, << <<"B">> >> }

IdleFilter == [pc |-> "idle", self_include |-> <<>>, self_exclude |-> <<>>, job_title |-> <<>>,
               include_filters |-> NotGiven, exclude_filters |-> NotGiven, ret |-> FALSE]

\* one call self.filter_job_title(job_title, include_filters, exclude_filters)
FilterJobTitle ==
    /\ flt.pc = "call"
    /\ flt' = [flt EXCEPT !.pc = "done",
                          !.ret = filter_job_title(flt.self_include, flt.self_exclude, flt.job_title,
                                                   flt.include_filters, flt.exclude_filters)]
    /\ UNCHANGED <<store, idVars, gwVars, prVars, joVars, scr, vie, lst, brw>>

-----------------------------------------------------------------------------
(* JobScraperBase.scrape_async for a scraper that queues {url, id} entries *)
(* and visits one detail page per entry (AirFranceJobScraper.parse_offers).*)

MaxQueue == 3       \* longest queue extract_all_offers_url builds

\* the {"url": ..., "id": ...} entries a listing can yield
QueueEntries ==
    { [url |-> <<"h", "t", "t", "p", ":", "/", "/", "h", "/", "1">>, id |-> "00017"],
      [url |-> <<"h", "t", "t", "p", "s", ":", "/", "/", "h", "/", "2">>, id |-> "00042"],
      [url |-> <<"h", "t", "t", "p", ":", "/", "/", "h", "/", "1", "?", "q">>, id |-> "00017"] }

\* what a detail page can yield for (title, company): a titled offer, the
\* "N/A" default of _safe_get_text for the title, a company of one hyphen
DetailPages == { [title |-> <<"d">>, company |-> <<"A", "-", "b">>],
                 [title |-> <<"N", "/", "A">>, company |-> <<"a">>],
                 [title |-> <<"e">>, company |-> <<"-">>] }

\* the JobOfferInput parse_offers builds from a detail page
JobOfferInput(page, url) == Fields(page.title, page.company, <<"b">>, url, <<>>)

\* JobOfferInput.to_job_offer: offer_id = self.offer_id or ""
to_job_offer(offer_input) == new_job_offer([offer_input EXCEPT !.offer_id = <<>>])

\* filter_already_scraped_offers keeping the whole queue
filtered_offers_keeps_all(offers_urls, existence_results) == offers_urls

\* filter_already_scraped_offers: the entries kept, given the existence map
filtered_offers(offers_urls, existence_results) ==
    LET Keep(offer_dict) == ~DictGet(existence_results, offer_dict.id)
    IN  SelectSeq(offers_urls, Keep)

\* scr: offers_urls  self._offers_urls
\*      raw_offers, validated_offers, i, c   locals of parse_offers and scrape_async
\*      queued, existence_results, visited, failed   history: the queue before
\*      the bulk check, the map it returned, the entries whose detail page was
\*      requested, the positions of the queue whose extraction raised
InitialScraper ==
    [pc |-> "extract", offers_urls |-> <<>>, raw_offers |-> <<>>, validated_offers |-> <<>>,
     i |-> 0, c |-> 0, queued |-> <<>>, existence_results |-> <<>>, visited |-> <<>>, failed |-> {}]

IdleScraper == [InitialScraper EXCEPT !.pc = "idle"]

\* extract_all_offers_url: the listing pages fill the queue, or the navigation
\* raises and scrape_async ends with the exception
ExtractAllOffersUrl ==
    /\ scr.pc = "extract"
    /\ \/ scr' = [scr EXCEPT !.pc = "failed"]
       \/ \E offers_urls \in SeqsUpTo(QueueEntries, MaxQueue) :
            scr' = [scr EXCEPT !.offers_urls = offers_urls, !.pc = "filter"]
    /\ UNCHANGED <<store, idVars, gwVars, prVars, joVars, flt, vie, lst, brw>>

\* filter_already_scraped_offers, then the start of parse_offers
FilterAlreadyScrapedOffers ==
    /\ scr.pc = "filter"
    /\ IF scr.offers_urls = <<>>
       THEN scr' = [scr EXCEPT !.pc = "done"]
       ELSE \E raises \in BOOLEAN :
              LET offer_ids == [n \in 1..Len(scr.offers_urls) |-> scr.offers_urls[n].id]
                  existence_results == check_multiple_offers_exist(store, offer_ids, raises)
                  kept == filtered_offers(scr.offers_urls, existence_results)
              IN  scr' = [scr EXCEPT !.queued = scr.offers_urls, !.existence_results = existence_results,
                                     !.offers_urls = kept, !.i = 1,
                                     !.pc = IF kept = <<>> THEN "done" ELSE "parse"]
    /\ UNCHANGED <<store, idVars, gwVars, prVars, joVars, flt, vie, lst, brw>>

\* parse_offers in which an exception on one entry ends scrape_async
ParseOfferAbortsOnFailure ==
    /\ scr.pc = "parse"
    /\ LET offer == scr.offers_urls[scr.i]
           last == scr.i = Len(scr.offers_urls)
       IN  \/ scr' = [scr EXCEPT !.visited = Append(@, offer), !.failed = @ \cup {scr.i}, !.pc = "failed"]
           \/ \E page \in DetailPages :
                scr' = [scr EXCEPT !.visited = Append(@, offer), !.i = @ + 1, !.c = 1,
                                   !.raw_offers = Append(@, [entry |-> scr.i, input |-> JobOfferInput(page, offer.url)]),
                                   !.pc = IF last THEN "convert" ELSE "parse"]
    /\ UNCHANGED <<store, idVars, gwVars, prVars, joVars, flt, vie, lst, brw>>

\* parse_offers: one iteration of `for offer in self._offers_urls`: page.goto
\* and the extraction, inside try/except; after the last one scrape_async
\* goes on to convert raw_offers
ParseOffer ==
    /\ scr.pc = "parse"
    /\ LET offer == scr.offers_urls[scr.i]
           last == scr.i = Len(scr.offers_urls)
           After(raw, failed) ==
               [scr EXCEPT !.visited = Append(@, offer), !.i = @ + 1, !.c = 1,
                           !.raw_offers = raw, !.failed = failed,
                           !.pc = IF ~last THEN "parse" ELSE IF raw = <<>> THEN "done" ELSE "convert"]
       IN  \/ scr' = After(scr.raw_offers, scr.failed \cup {scr.i})      \* the try block raises
           \/ \E page \in DetailPages :
                scr' = After(Append(scr.raw_offers, [entry |-> scr.i, input |-> JobOfferInput(page, offer.url)]),
                             scr.failed)
    /\ UNCHANGED <<store, idVars, gwVars, prVars, joVars, flt, vie, lst, brw>>

\* scrape_async: one iteration of `for offer_input in raw_offers`:
\* convert_to_job_offer answers None when to_job_offer raises
ConvertOffer ==
    /\ scr.pc = "convert"
    /\ LET raw == scr.raw_offers[scr.c]
           job_offer == to_job_offer(raw.input)
           last == scr.c = Len(scr.raw_offers)
       IN  scr' = [scr EXCEPT !.validated_offers = IF job_offer.ok
                                                   THEN Append(@, [entry |-> raw.entry, offer |-> job_offer.value])
                                                   ELSE @,
                              !.c = @ + 1,
                              !.pc = IF last THEN "done" ELSE "convert"]
    /\ UNCHANGED <<store, idVars, gwVars, prVars, joVars, flt, vie, lst, brw>>

-----------------------------------------------------------------------------
(* VIEJobScraper (services/scraping/src/vie.py): the "see more" loop of    *)
(* extract_all_offers_url and the loop of parse_offers over the items.     *)

max_attempts == 3

MaxItems == 4       \* most items the listing ever shows

\* the title of the i-th item of the listing
ListingTitles == << <<"D", "a", "b">>, <<"b", "e", "d">>, <<"a">>, <<"e", "d">> >>
ItemTitle(i) == ListingTitles[((i - 1) % Len(ListingTitles)) + 1]

\* the filters of the scraper
VieIncludeFilters == << <<"d">> >>
VieExcludeFilters == << <<"A">> >>

\* `if no_change_attempts >= max_attempts: break` one comparison late
should_stop_one_late(no_change_attempts) == no_change_attempts > max_attempts

\* `if no_change_attempts >= max_attempts: break`
should_stop(no_change_attempts) == no_change_attempts >= max_attempts

\* vie: visible   number of .figure-item elements on the page
\*      previous_count, no_change_attempts   locals of extract_all_offers_url
\*      i, offers  locals of parse_offers; offers holds, per JobOfferInput, its item
\*      clicks, lastIncrease   history: clicks made, and the click at which
\*      the number of items last increased (0: never)
InitialVie(visible) ==
    [pc |-> "click", visible |-> visible, previous_count |-> 0, no_change_attempts |-> 0,
     i |-> 0, offers |-> <<>>, clicks |-> 0, lastIncrease |-> 0]

IdleVie == [InitialVie(0) EXCEPT !.pc = "idle"]

\* the end of the loop, then filter_already_scraped_offers (which returns at
\* once: _offers_urls is empty) and the start of parse_offers
LoopEnded(v) == [v EXCEPT !.i = 1, !.pc = IF v.visible = 0 THEN "done" ELSE "parse"]

\* extract_all_offers_url: one iteration of `while True`: the button is not
\* found (except: break), or it is clicked, the page shows `added` more items
\* and the count is compared with previous_count
ClickSeeMore ==
    /\ vie.pc = "click"
    /\ \/ vie' = LoopEnded(vie)
       \/ \E added \in 0..(MaxItems - vie.visible) :
            LET current_count == vie.visible + added
                clicked == [vie EXCEPT !.visible = current_count, !.clicks = @ + 1,
                                       !.lastIncrease = IF added > 0 THEN vie.clicks + 1 ELSE @]
            IN  IF current_count = vie.previous_count
                THEN LET counted == [clicked EXCEPT !.no_change_attempts = @ + 1]
                     IN  vie' = IF should_stop(counted.no_change_attempts) THEN LoopEnded(counted) ELSE counted
                ELSE vie' = [clicked EXCEPT !.no_change_attempts = 0, !.previous_count = current_count]
    /\ UNCHANGED <<store, idVars, gwVars, prVars, joVars, flt, scr, lst, brw>>

\* parse_offers: one iteration of `for i in range(offer_count)`: the
\* extraction raises, the title is filtered out, or a JobOfferInput is appended
ParseItem ==
    /\ vie.pc = "parse"
    /\ LET title == ItemTitle(vie.i)
           last == vie.i = vie.visible
           After(offers) == [vie EXCEPT !.offers = offers, !.i = @ + 1,
                                        !.pc = IF last THEN "done" ELSE "parse"]
       IN  \/ vie' = After(vie.offers)      \* the try block raises
           \/ vie' = IF filter_job_title(VieIncludeFilters, VieExcludeFilters, title,
                                         Given(VieIncludeFilters), Given(VieExcludeFilters))
                     THEN After(vie.offers)
                     ELSE After(Append(vie.offers, [item |-> vie.i, title |-> title]))
    /\ UNCHANGED <<store, idVars, gwVars, prVars, joVars, flt, scr, lst, brw>>

-----------------------------------------------------------------------------
(* The paged scrapers AirFranceJobScraper (airfrance.py) and               *)
(* WelcomeToTheJungleJobScraper (welcome_to_the_jungle.py) inside          *)
(* scrape_async: extract_all_offers_url over the listing pages, then       *)
(* filter_already_scraped_offers, parse_offers and the conversion.         *)

MaxPages == 2       \* listing pages a site serves
MaxListed == 2      \* items of one listing page
MaxTotal == 3       \* largest value the total-count indicator shows
MaxRereads == 1     \* clicks on a next control that leaves the last page shown

PagedSources == {AIR_FRANCE, WELCOME_TO_THE_JUNGLE}

\* the company literal of generate_job_offer_id(company="Air France", ...)
AirFranceCompany == <<"A", "i", "r", " ", "F", "r", "a", "n", "c", "e">>

\* the items a listing page shows: title, href made absolute, company line
ListingItems ==
    { [title |-> <<" ", "D">>, url |-> <<"h", "t", "t", "p", ":", "/", "/", "h", "/", "1", "?", "q">>,
       company |-> <<"a">>],
      [title |-> <<"e">>, url |-> <<"h", "t", "t", "p", "s", ":", "/", "/", "h", "/", "2">>,
       company |-> <<"a">>],
      [title |-> <<>>, url |-> <<"h", "t", "t", "p", ":", "/", "/", "h", "/", "3">>,
       company |-> <<"a">>] }

\* a listing page is its items, each shown once; a page without any is one
\* on which the listing-item selector never appears
ListingPages ==
    {p \in SeqsUpTo(ListingItems, MaxListed) : \A m, n \in 1..Len(p) : p[m] = p[n] => m = n}
Sites == SeqsUpTo(ListingPages, MaxPages) \ {<<>>}

ListingIncludeFilters == << <<"d">> >>
ListingExcludeFilters == << <<"e">> >>

\* the {"url": ..., "id": ...} entry appended for one listing item
queue_entry(source, item) ==
    IF source = AIR_FRANCE
    THEN [url |-> item.url, id |-> generate_job_offer_id(AirFranceCompany, item.title, item.url)]
    ELSE [url |-> pre_process_url(item.url),
          id |-> generate_job_offer_id(Strip(item.company), Strip(item.title), pre_process_url(item.url))]

\* `for i in range(offer_count)` over one listing page: the entries appended
RECURSIVE entries_of(_, _)
entries_of(source, items) ==
    IF items = <<>> THEN <<>>
    ELSE LET item == Head(items)
             job_title == IF source = AIR_FRANCE THEN Strip(item.title) ELSE item.title
             filtered == filter_job_title(ListingIncludeFilters, ListingExcludeFilters, job_title,
                                          Given(ListingIncludeFilters), Given(ListingExcludeFilters))
             \* airfrance.py: `if title and self.filter_job_title(...): continue`
             \* welcome_to_the_jungle.py: `if job_title and not self.filter_job_title(...)`
             skip == IF source = AIR_FRANCE THEN item.title # <<>> /\ filtered
                     ELSE item.title = <<>> \/ filtered
         IN  (IF skip THEN <<>> ELSE <<queue_entry(source, item)>>) \o entries_of(source, Tail(items))

\* what a detail page shows for (title, company): the listed title or the
\* "N/A" default; for Air France the default company or the one of the logo
DetailPagesOf(source) ==
    LET listed == IF source = AIR_FRANCE THEN AirFranceCompany ELSE <<"a">>
        shown == IF source = AIR_FRANCE THEN <<"a">> ELSE <<"A", "-", "b">>
    IN  { [title |-> <<"d">>, company |-> listed],
          [title |-> <<"d">>, company |-> shown],
          [title |-> <<"N", "/", "A">>, company |-> listed] }

\* lst: source, site   the scraper and the listing pages the site serves
\*      pc             "goto", "ui", "count", "page", "filter", "parse", "convert",
\*                     then "returned" (scrape_async returned a list) or
\*                     "failed" (it raised)
\*      total_offers, loaded_offers, offers_urls   as in the code
\*      page           the listing page shown
\*      raw_offers, validated_offers, i, c   locals of parse_offers and scrape_async
\*      indicator      what the total-count indicator showed, -1 when it
\*                     could not be read (history)
\*      timed_out      the listing pages on which the selector never appeared (history)
\*      queued         the queue extract_all_offers_url left (history)
\*      next_stays     the next-page control of the last page is present and
\*                     enabled, and a click on it leaves that page shown
\*      rereads        the clicks on it so far
\*      ui             what happened to the banner and the search filters (history)
\*      visited        the urls parse_offers navigated to (history)
InitialListing(source, site) ==
    [source |-> source, site |-> site, pc |-> "goto", total_offers |-> 0, loaded_offers |-> 0,
     offers_urls |-> <<>>, page |-> 1, raw_offers |-> <<>>, validated_offers |-> <<>>, i |-> 0, c |-> 0,
     indicator |-> -1, timed_out |-> {}, queued |-> <<>>,
     next_stays |-> FALSE, rereads |-> 0, ui |-> "none", visited |-> <<>>]

IdleListing == [InitialListing(AIR_FRANCE, <<>>) EXCEPT !.pc = "idle"]

\* the listing is left: the queue is final
Extracted(l) == [l EXCEPT !.pc = "filter", !.queued = l.offers_urls]

\* page.goto(self.url): an exception leaves extract_all_offers_url (as
\* ValueError in airfrance.py) and scrape_async
ListingGoto ==
    /\ lst.pc = "goto"
    /\ \/ lst' = [lst EXCEPT !.pc = "failed"]
       \/ lst' = [lst EXCEPT !.pc = "ui"]
    /\ UNCHANGED <<store, idVars, gwVars, prVars, joVars, flt, scr, vie, brw>>

\* what can happen between page.goto and the total count: the banner and
\* the filters are handled ("ok"); the click on the banner raises, which is
\* passed over; a filter cannot be applied, which the except branch records
\* with save_error_screenshot and logs; save_error_screenshot raises in turn
UiOutcomes == {"ok", "banner_failed", "filter_failed", "handler_failed"}

\* the consent banner, then the keyword, location and contract-type filters.
\* save_error_screenshot is awaited inside the except branch, so what it
\* raises leaves extract_all_offers_url
HandleBannerAndFilters ==
    /\ lst.pc = "ui"
    /\ \E outcome \in UiOutcomes :
         lst' = [lst EXCEPT !.ui = outcome,
                            !.pc = IF outcome = "handler_failed" THEN "failed" ELSE "count"]
    /\ UNCHANGED <<store, idVars, gwVars, prVars, joVars, flt, scr, vie, brw>>

\* the total-count indicator: read, or total_offers = 0 when it is missing
\* or unreadable; welcome_to_the_jungle.py then loops `while loaded_offers <
\* total_offers`, airfrance.py loops `while True`
ReadTotalOffers ==
    /\ lst.pc = "count"
    /\ \E indicator \in -1..MaxTotal :
         LET total_offers == IF indicator = -1 THEN 0 ELSE indicator
             counted == [lst EXCEPT !.indicator = indicator, !.total_offers = total_offers]
         IN  lst' = IF lst.source = WELCOME_TO_THE_JUNGLE /\ ~(counted.loaded_offers < total_offers)
                    THEN Extracted(counted)
                    ELSE [counted EXCEPT !.pc = "page"]
    /\ UNCHANGED <<store, idVars, gwVars, prVars, joVars, flt, scr, vie, brw>>

\* one iteration of the loop over the listing pages: the wait for the
\* listing-item selector (a timeout is logged and breaks), the items of the
\* page, then the click on the next-page control if it is there and enabled.
\* Only welcome_to_the_jungle.py compares loaded_offers with total_offers;
\* loaded_offers is history for airfrance.py, which has no such counter.
ExtractPage ==
    /\ lst.pc = "page"
    /\ LET items == lst.site[lst.page]
           read == [lst EXCEPT !.offers_urls = @ \o entries_of(lst.source, items),
                               !.loaded_offers = @ + Len(items)]
           stops == lst.source = WELCOME_TO_THE_JUNGLE /\ read.loaded_offers >= read.total_offers
           last == lst.page = Len(lst.site)
       IN  /\ (items # <<>> /\ ~stops /\ last /\ lst.next_stays) => lst.rereads < MaxRereads
           /\ lst' = IF items = <<>>
                     THEN Extracted([lst EXCEPT !.timed_out = @ \cup {lst.page}])
                     ELSE IF stops
                     THEN Extracted(read)
                     ELSE IF ~last
                     THEN [read EXCEPT !.page = @ + 1]
                     ELSE IF lst.next_stays
                     THEN [read EXCEPT !.rereads = @ + 1]
                     ELSE Extracted(read)
    /\ UNCHANGED <<store, idVars, gwVars, prVars, joVars, flt, scr, vie, brw>>

\* filter_already_scraped_offers, then the start of parse_offers
FilterListed ==
    /\ lst.pc = "filter"
    /\ IF lst.offers_urls = <<>>
       THEN lst' = [lst EXCEPT !.pc = "returned"]
       ELSE \E raises \in BOOLEAN :
              LET offer_ids == [n \in 1..Len(lst.offers_urls) |-> lst.offers_urls[n].id]
                  kept == filtered_offers(lst.offers_urls, check_multiple_offers_exist(store, offer_ids, raises))
              IN  lst' = [lst EXCEPT !.offers_urls = kept, !.i = 1,
                                     !.pc = IF kept = <<>> THEN "returned" ELSE "parse"]
    /\ UNCHANGED <<store, idVars, gwVars, prVars, joVars, flt, scr, vie, brw>>

\* parse_offers: one iteration of `for offer in self._offers_urls`
ParseListed ==
    /\ lst.pc = "parse"
    /\ LET offer == lst.offers_urls[lst.i]
           last == lst.i = Len(lst.offers_urls)
           After(raw) == [lst EXCEPT !.i = @ + 1, !.c = 1, !.raw_offers = raw,
                                     !.visited = Append(@, offer.url),
                                     !.pc = IF ~last THEN "parse" ELSE IF raw = <<>> THEN "returned" ELSE "convert"]
       IN  \/ lst' = After(lst.raw_offers)      \* the try block raises
           \/ \E page \in DetailPagesOf(lst.source) :
                lst' = After(Append(lst.raw_offers, [entry |-> offer, input |-> JobOfferInput(page, offer.url)]))
    /\ UNCHANGED <<store, idVars, gwVars, prVars, joVars, flt, scr, vie, brw>>

\* scrape_async: one iteration of `for offer_input in raw_offers`
ConvertListed ==
    /\ lst.pc = "convert"
    /\ LET raw == lst.raw_offers[lst.c]
           job_offer == to_job_offer(raw.input)
           last == lst.c = Len(lst.raw_offers)
       IN  lst' = [lst EXCEPT !.validated_offers = IF job_offer.ok
                                                   THEN Append(@, [entry |-> raw.entry, offer |-> job_offer.value])
                                                   ELSE @,
                              !.c = @ + 1,
                              !.pc = IF last THEN "returned" ELSE "convert"]
    /\ UNCHANGED <<store, idVars, gwVars, prVars, joVars, flt, scr, vie, brw>>

-----------------------------------------------------------------------------
(* JobScraperBase._setup_browser, scrape_async and _cleanup_browser        *)
(* (job_scraper_base.py): the Playwright objects a scrape run opens and    *)
(* closes.  scrape_offers runs the selected scrapers one after the other,  *)
(* each a new scraper object.                                              *)

MaxBrowserRuns == 3     \* scrape() calls of one scrape_offers

Playwright == "playwright"
Browser == "browser"
Context == "context"
PageObject == "page"

\* the awaits of _setup_browser that can raise, in order; the first two are
\* made only when no browser was supplied
SetupSteps == <<"start", "launch", "new_context", "apply_stealth_async", "new_page">>

\* the awaits of _cleanup_browser, in order, with the resource each closes
CleanupSteps == <<PageObject, Context, Browser, Playwright>>

\* the outcomes of the try block of scrape_async: it returns the validated
\* offers, or extract_all_offers_url or parse_offers raises
TryOutcomes == {"returned", "extract_all_offers_url", "parse_offers"}

\* brw: pc       "setup", "try", "cleanup", "ended"
\*      supplied the scraper was constructed with browser=...
\*      has      the attributes among _playwright, _browser, _context, _page
\*               that are set
\*      _browser_owned   as in the code
\*      open     the objects this run created and has not closed
\*      supplied_closed  the supplied browser was closed by the scraper (history)
\*      result   how scrape ended: "returned" or "raised" (history)
\*      run      the number of this scrape() call
\*      left     the number of objects earlier runs left open (history)
InitialBrowser(supplied) ==
    [pc |-> "setup", supplied |-> supplied, has |-> {}, _browser_owned |-> FALSE, open |-> {},
     supplied_closed |-> FALSE, result |-> "none", run |-> 1, left |-> 0]

IdleBrowser == [InitialBrowser(FALSE) EXCEPT !.pc = "idle"]

\* the steps _setup_browser makes for this scraper
StepsOfSetup(supplied) == IF supplied THEN SubSeq(SetupSteps, 3, 5) ELSE SetupSteps

\* the effect of one await of _setup_browser that returned
AfterSetupStep(b, step) ==
    CASE step = "start"       -> [b EXCEPT !.has = @ \cup {Playwright}, !.open = @ \cup {Playwright}]
      [] step = "launch"      -> [b EXCEPT !.has = @ \cup {Browser}, !.open = @ \cup {Browser},
                                           !._browser_owned = TRUE]
      [] step = "new_context" -> [b EXCEPT !.has = @ \cup {Browser, Context}, !.open = @ \cup {Context}]
      [] step = "apply_stealth_async" -> b
      [] step = "new_page"    -> [b EXCEPT !.has = @ \cup {PageObject}, !.open = @ \cup {PageObject}]

\* _setup_browser up to, and without, the n-th of its steps
RECURSIVE SetupUpTo(_, _, _)
SetupUpTo(b, steps, n) ==
    IF n = 1 THEN b ELSE AfterSetupStep(SetupUpTo(b, steps, n - 1), steps[n - 1])

\* `await self._setup_browser()`, the statement before the try block of
\* scrape_async: every step returns, or the n-th raises and scrape_async
\* raises with it
SetupBrowser ==
    /\ brw.pc = "setup"
    /\ LET steps == StepsOfSetup(brw.supplied)
       IN  \E n \in 1..(Len(steps) + 1) :
             brw' = IF n = Len(steps) + 1
                    THEN [SetupUpTo(brw, steps, n) EXCEPT !.pc = "try"]
                    ELSE [SetupUpTo(brw, steps, n) EXCEPT !.pc = "ended", !.result = "raised"]
    /\ UNCHANGED <<store, idVars, gwVars, prVars, joVars, flt, scr, vie, lst>>

\* the try block of scrape_async, followed by `finally`
TryBlock ==
    /\ brw.pc = "try"
    /\ \E outcome \in TryOutcomes :
         brw' = [brw EXCEPT !.pc = "cleanup",
                            !.result = IF outcome = "returned" THEN "returned" ELSE "raised"]
    /\ UNCHANGED <<store, idVars, gwVars, prVars, joVars, flt, scr, vie, lst>>

\* the condition under which _cleanup_browser closes a resource
Closes(b, resource) ==
    IF resource = Browser THEN b._browser_owned /\ Browser \in b.has ELSE resource \in b.has

\* _cleanup_browser from its n-th step on; the step `raising` raises (0: none)
RECURSIVE CleanupFrom(_, _, _)
CleanupFrom(b, n, raising) ==
    IF n > Len(CleanupSteps) THEN b
    ELSE LET resource == CleanupSteps[n]
         IN  IF ~Closes(b, resource) THEN CleanupFrom(b, n + 1, raising)
             ELSE IF n = raising THEN [b EXCEPT !.result = "raised"]
             ELSE CleanupFrom([b EXCEPT !.open = @ \ {resource},
                                        !.supplied_closed = @ \/ (resource = Browser /\ b.supplied)],
                              n + 1, raising)

\* `finally: await self._cleanup_browser()`: every close returns, or one of
\* those it makes raises and the rest is not reached
CleanupBrowser ==
    /\ brw.pc = "cleanup"
    /\ \E raising \in 0..Len(CleanupSteps) :
         /\ raising > 0 => Closes(brw, CleanupSteps[raising])
         /\ brw' = [CleanupFrom(brw, 1, raising) EXCEPT !.pc = "ended"]
    /\ UNCHANGED <<store, idVars, gwVars, prVars, joVars, flt, scr, vie, lst>>

\* scrape_offers: the next scraper of the selection is created and its
\* scrape() called, whether the last one returned or raised
NextScrape ==
    /\ brw.pc = "ended"
    /\ brw.run < MaxBrowserRuns
    /\ \E supplied \in BOOLEAN :
         brw' = [InitialBrowser(supplied) EXCEPT !.run = brw.run + 1,
                                                 !.left = brw.left + Cardinality(brw.open)]
    /\ UNCHANGED <<store, idVars, gwVars, prVars, joVars, flt, scr, vie, lst>>

-----------------------------------------------------------------------------
(* JobOffer.to_notion_format (job_offer.py): the rich_text properties      *)
(* "Offer ID" and "Job Content Description".  Strings are sequences of     *)
(* characters, so a slice is a SubSeq and a length is a Len.               *)

MaxDescription == 2010      \* longest job_content_description

RichTextLimit == 2000       \* content[:2000]
JobContentLimit == 1950     \* len(job_content) > 1950, job_content[:1950]

\* job_content_description: Optional[str]
NoDescription == [none |-> TRUE, value |-> <<>>]
Description(value) == [none |-> FALSE, value |-> value]

\* "A" * n
Repeated(n) == [k \in 1..n |-> "A"]

\* content[:n]
Slice(content, n) == IF Len(content) > n THEN SubSeq(content, 1, n) ELSE content

\* notion_rich_text(content): the text content of the property
notion_rich_text(content) ==
    IF content # <<>> THEN Slice(content, RichTextLimit) ELSE <<"N", "/", "A">>

\* job_content = self.job_content_description or "", cut to 1950 characters
\* followed by "..." when longer
job_content(job_content_description) ==
    LET content == IF job_content_description.none THEN <<>> ELSE job_content_description.value
    IN  IF Len(content) > JobContentLimit
        THEN Slice(content, JobContentLimit) \o <<".", ".", ".">>
        ELSE content

\* to_notion_format writing the offer id and the whole description
rich_text_properties_as_they_are(self, job_content_description) ==
    [OfferID |-> self.offer_id, JobContentDescription |-> job_content_description.value]

\* to_notion_format: the text contents of "Offer ID" and "Job Content Description"
rich_text_properties(self, job_content_description) ==
    [OfferID |-> notion_rich_text(self.offer_id),
     JobContentDescription |-> notion_rich_text(job_content(job_content_description))]

\* the JobOffers formatted: offer_id generated, and given
FormattedOffers ==
    { new_job_offer(Fields(<<"d">>, <<"a">>, <<"b">>,
                           <<"h", "t", "t", "p", ":", "/", "/", "h", "/", "1">>, offer_id)).value :
        offer_id \in { <<>>, <<"1", "2", "3", "4", "5">> } }

\* fmt: self, job_content_description   the JobOffer; properties  what
\*      to_notion_format returned
InitialFormat(self, job_content_description) ==
    [pc |-> "call", self |-> self, job_content_description |-> job_content_description,
     properties |-> [OfferID |-> <<>>, JobContentDescription |-> <<>>]]

IdleFormat == [InitialFormat(Fields(<<>>, <<>>, <<>>, <<>>, <<>>), NoDescription) EXCEPT !.pc = "idle"]

ToNotionFormat ==
    /\ fmt.pc = "call"
    /\ fmt' = [fmt EXCEPT !.pc = "done",
                          !.properties = rich_text_properties(fmt.self, fmt.job_content_description)]
    /\ UNCHANGED <<jo, store, idVars, gwVars, prVars, scVars>>

-----------------------------------------------------------------------------
(* main.py: the checks of the environment and of the selection, the        *)
(* construction of NotionClient and OfferProcessor, scrape_and_process     *)
(* (the actions of OfferProcessor above) and the exit status.              *)

\* os.getenv(name): the value, "" standing for None and for an empty value
Getenv(environ, name) == IF name \in environ THEN name ELSE ""

\* the pre-defined groups of parse_scraper_selection
SelectionGroups ==
    [g \in {"all", "vie", "cdi", "tech", "wttj", "airfrance", "apple", "linkedin", "data", "ai",
            "french-companies"} |->
        CASE g = "all" -> <<"1", "2", "3", "4", "5", "6", "7">>
          [] g = "vie" -> <<"1">>
          [] g = "cdi" -> <<"2", "3", "4", "5", "6">>
          [] g = "tech" -> <<"3", "4", "5", "6">>
          [] g = "wttj" -> <<"4", "5">>
          [] g = "airfrance" -> <<"2">>
          [] g = "apple" -> <<"3">>
          [] g = "linkedin" -> <<"6">>
          [] g = "data" -> <<"4", "6">>
          [] g = "ai" -> <<"5", "6">>
          [] g = "french-companies" -> <<"1", "2">>]

\* parse_scraper_selection: a group, or the listed ids when each one is
\* configured, else ValueError
parse_scraper_selection(selection, scrapers_config) ==
    IF Len(selection) = 1 /\ selection[1] \in DOMAIN SelectionGroups
    THEN Valid(SelectionGroups[selection[1]])
    ELSE IF \A n \in 1..Len(selection) : selection[n] \in DOMAIN scrapers_config
    THEN Valid(selection)
    ELSE Invalid

\* the environments a run starts in: complete, or one variable missing
Environments == {EnvironmentVariables,
                 EnvironmentVariables \ {"NOTION_API"},
                 EnvironmentVariables \ {"FREE_MOBILE_API_KEY"},
                 EnvironmentVariables \ {"LINKEDIN_PASSWORD"}}

\* values of --scrapers: groups, lists of ids, lists with an unknown id
ScraperArgs == {<<"airfrance">>, <<"linkedin">>, <<"2">>, <<"2", "9">>}

MaxOtherWrites == 1     \* pages another run creates while this one runs

Exit(code) == [main EXCEPT !.pc = "exited", !.exit_code = code]

\* `if not DATABASE_ID or not NOTION_API: exit(1)`
CheckEnvironment ==
    /\ main.pc = "env"
    /\ main' = IF Getenv(main.environ, "DATABASE_ID") = "" \/ Getenv(main.environ, "NOTION_API") = ""
               THEN Exit(1)
               ELSE [main EXCEPT !.pc = "select"]
    /\ UNCHANGED <<store, proc, sms, idVars, gwVars, joVars, scVars>>

\* selected_scraper_ids = parse_scraper_selection(...); `except ValueError: exit(1)`
ParseScraperSelection ==
    /\ main.pc = "select"
    /\ LET r == parse_scraper_selection(main.scrapers, ScrapersConfig)
       IN  main' = IF r.ok
                   THEN [main EXCEPT !.selected_scraper_ids = r.value, !.valid_selection = TRUE, !.pc = "init"]
                   ELSE Exit(1)
    /\ UNCHANGED <<store, proc, sms, idVars, gwVars, joVars, scVars>>

\* notion_client = NotionClient(NOTION_API, DATABASE_ID), then
\* OfferProcessor(...), whose asserts on FREE_MOBILE_USER_ID and
\* FREE_MOBILE_API_KEY end in `except Exception: exit(1)`
InitializeServices ==
    /\ main.pc = "init"
    /\ LET c == NotionClientInit(Getenv(main.environ, "NOTION_API"), Getenv(main.environ, "DATABASE_ID"))
           built == [main EXCEPT !.notion_client = c.value, !.created_at = Len(store)]
       IN  IF ~c.ok
           THEN main' = Exit(1) /\ proc' = proc
           ELSE IF Getenv(main.environ, "FREE_MOBILE_USER_ID") = ""
                   \/ Getenv(main.environ, "FREE_MOBILE_API_KEY") = ""
           THEN main' = [built EXCEPT !.pc = "exited", !.exit_code = 1] /\ proc' = proc
           ELSE /\ main' = [built EXCEPT !.pc = "workflow"]
                /\ proc' = InitialProc(main.selected_scraper_ids)
    /\ UNCHANGED <<store, sms, idVars, gwVars, joVars, scVars>>

\* scrape_and_process returned (the end of the script: status 0) or
\* process_offers raised ValueError (`except ValueError: exit(1)`)
WorkflowEnds ==
    /\ main.pc = "workflow"
    /\ proc.pc \in {"done", "error"}
    /\ main' = Exit(IF proc.pc = "done" THEN 0 ELSE 1)
    /\ UNCHANGED <<store, proc, sms, idVars, gwVars, joVars, scVars>>

\* another run of the pipeline creates a page in the same database, before
\* this run asks which offers exist
OtherRunWrites ==
    /\ main.pc \in {"init", "workflow"}
    /\ proc.pc \in {"idle", "scrape", "process"}
    /\ main.others < MaxOtherWrites
    /\ \E o \in GatewayOffers : store' = pages_create(store, to_notion_format(o), FALSE).db
    /\ main' = [main EXCEPT !.others = @ + 1]
    /\ UNCHANGED <<proc, sms, idVars, gwVars, joVars, scVars>>

-----------------------------------------------------------------------------
(* Specifications                                                          *)

IdIdle == idArgs = [company |-> <<>>, title |-> <<>>, url |-> <<>>] /\ id1 = NoId /\ id2 = NoId
          /\ red = IdleReduce
GwIdle == task = [t \in Tasks |-> IdleTask]
PrIdle == proc = IdleProc /\ sms = <<>> /\ main = IdleMain
JoIdle == jo = IdleJobOffer /\ fmt = IdleFormat
FlIdle == flt = IdleFilter
ScIdle == FlIdle /\ scr = IdleScraper /\ vie = IdleVie /\ lst = IdleListing /\ brw = IdleBrowser

InitId ==
    /\ idArgs \in [company : Companies, title : Titles, url : Urls]
    /\ id1 = NoId
    /\ id2 = NoId
    /\ red = IdleReduce
    /\ store = <<>>
    /\ GwIdle
    /\ PrIdle
    /\ JoIdle
    /\ ScIdle

NextId == GenerateId \/ GenerateIdOfVariant

SpecId == InitId /\ [][NextId]_vars

InitReduce ==
    /\ \E hash_hex \in [1..(PrefixLength + 1) -> PrefixCharacters] :
         red = [IdleReduce EXCEPT !.hash_hex = hash_hex]
    /\ idArgs = [company |-> <<>>, title |-> <<>>, url |-> <<>>]
    /\ id1 = NoId
    /\ id2 = NoId
    /\ store = <<>>
    /\ GwIdle
    /\ PrIdle
    /\ JoIdle
    /\ ScIdle

NextReduce == ReducePrefix

SpecReduce == InitReduce /\ [][NextReduce]_vars

InitGateway ==
    /\ store \in InitialStores
    /\ task = [t \in Tasks |-> IdleTask]
    /\ IdIdle
    /\ PrIdle
    /\ JoIdle
    /\ ScIdle

NextGateway ==
    \/ \E t \in Tasks, o \in GatewayOffers : CallCreatePageFromJobOffer(t, o)
    \/ \E t \in Tasks : CheckBeforeCreate(t)
    \/ \E t \in Tasks : WritePage(t)
    \/ \E t \in Tasks, ids \in SeqsUpTo(OfferIds, MaxBatch) : CheckMultipleOffersExist(t, ids)
    \/ \E offers \in SeqsUpTo(GatewayOffers, MaxBatch) : \E t \in BatchTasks : CallCreatePagesFromJobOffers(t, offers)
    \/ \E t \in BatchTasks : BatchCheck(t)
    \/ \E t \in BatchTasks : BatchStep(t)

SpecGateway == InitGateway /\ [][NextGateway]_vars

InitProcessor ==
    /\ store \in InitialStores
    /\ \E selected \in Selections : proc = InitialProc(selected)
    /\ sms = <<>>
    /\ main = IdleMain
    /\ IdIdle
    /\ GwIdle
    /\ JoIdle
    /\ ScIdle

NextProcessor == ScrapeSource \/ ProcessCheck \/ ProcessOffer

SpecProcessor == InitProcessor /\ [][NextProcessor]_vars

\* process_offers(offers) called with a given list, and called again with the
\* same list once it has returned
InitRetry ==
    /\ store \in InitialStores
    /\ \E offers \in SeqsUpTo(RetryOffers, MaxRetried) :
         /\ offers # <<>>
         /\ proc = [InitialProc(<<"2">>) EXCEPT !.pc = "process", !.scraped_offers = offers]
    /\ sms = <<>>
    /\ main = IdleMain
    /\ IdIdle
    /\ GwIdle
    /\ JoIdle
    /\ ScIdle

NextRetry == ProcessCheck \/ ProcessOffer \/ ProcessOffersAgain

SpecRetry == InitRetry /\ [][NextRetry]_vars

InitFilter ==
    /\ \E own \in [include : OwnFilters, exclude : OwnFilters],
          arg \in [include : {NotGiven} \cup {Given(l) : l \in FilterLists},
                   exclude : {NotGiven} \cup {Given(l) : l \in FilterLists}],
          job_title \in FilterTitles :
         flt = [IdleFilter EXCEPT !.pc = "call", !.self_include = own.include, !.self_exclude = own.exclude,
                                  !.job_title = job_title, !.include_filters = arg.include,
                                  !.exclude_filters = arg.exclude]
    /\ scr = IdleScraper
    /\ vie = IdleVie
    /\ lst = IdleListing
    /\ brw = IdleBrowser
    /\ store = <<>>
    /\ IdIdle
    /\ GwIdle
    /\ PrIdle
    /\ JoIdle

NextFilter == FilterJobTitle

InitJobOffer ==
    /\ \E args \in [title : TitleArgs, company : CompanyArgs, location : LocationArgs,
                     url : UrlArgs, offer_id : OfferIdArgs] :
         jo = ArgsJobOffer(args)
    /\ fmt = IdleFormat
    /\ store = <<>>
    /\ IdIdle
    /\ GwIdle
    /\ PrIdle
    /\ ScIdle

NextJobOffer ==
    \/ Construct
    \/ \E v \in TitleArgs : SetAttr("title", v)
    \/ \E v \in CompanyArgs : SetAttr("company", v)
    \/ \E v \in UrlArgs : SetAttr("url", v)
    \/ regenerate_id
    \/ Revalidate

SpecJobOffer == InitJobOffer /\ [][NextJobOffer]_vars

InitScraper ==
    /\ store \in InitialStores
    /\ scr = InitialScraper
    /\ flt = IdleFilter
    /\ vie = IdleVie
    /\ lst = IdleListing
    /\ brw = IdleBrowser
    /\ IdIdle
    /\ GwIdle
    /\ PrIdle
    /\ JoIdle

NextScraper == ExtractAllOffersUrl \/ FilterAlreadyScrapedOffers \/ ParseOffer \/ ConvertOffer

SpecScraper == InitScraper /\ [][NextScraper]_vars

InitVie ==
    /\ \E visible \in 0..MaxItems : vie = InitialVie(visible)
    /\ flt = IdleFilter
    /\ scr = IdleScraper
    /\ lst = IdleListing
    /\ brw = IdleBrowser
    /\ store = <<>>
    /\ IdIdle
    /\ GwIdle
    /\ PrIdle
    /\ JoIdle

NextVie == ClickSeeMore \/ ParseItem

SpecVie == InitVie /\ [][NextVie]_vars

InitMain ==
    /\ store \in InitialStores
    /\ \E environ \in Environments, scrapers \in ScraperArgs : main = InitialMain(environ, scrapers)
    /\ proc = IdleProc
    /\ sms = <<>>
    /\ IdIdle
    /\ GwIdle
    /\ JoIdle
    /\ ScIdle

NextMain ==
    \/ CheckEnvironment
    \/ ParseScraperSelection
    \/ InitializeServices
    \/ ScrapeSource
    \/ ProcessCheck
    \/ ProcessOffer
    \/ WorkflowEnds
    \/ OtherRunWrites

SpecMain == InitMain /\ [][NextMain]_vars

\* The steps main.py takes by itself are taken when they can be; when
\* scraper.scrape() returns or raises is up to the site, and when another
\* run writes is up to that run.
SpecMainLive ==
    /\ SpecMain
    /\ WF_vars(CheckEnvironment)
    /\ WF_vars(ParseScraperSelection)
    /\ WF_vars(InitializeServices)
    /\ WF_vars(ProcessCheck)
    /\ WF_vars(ProcessOffer)
    /\ WF_vars(WorkflowEnds)

InitListing ==
    /\ store = <<>>
    /\ \E source \in PagedSources, site \in Sites, next_stays \in BOOLEAN :
         lst = [InitialListing(source, site) EXCEPT !.next_stays = next_stays]
    /\ flt = IdleFilter
    /\ scr = IdleScraper
    /\ vie = IdleVie
    /\ brw = IdleBrowser
    /\ IdIdle
    /\ GwIdle
    /\ PrIdle
    /\ JoIdle

NextListing ==
    \/ ListingGoto
    \/ HandleBannerAndFilters
    \/ ReadTotalOffers
    \/ ExtractPage
    \/ FilterListed
    \/ ParseListed
    \/ ConvertListed

SpecListing == InitListing /\ [][NextListing]_vars

InitBrowser ==
    /\ store = <<>>
    /\ \E supplied \in BOOLEAN : brw = InitialBrowser(supplied)
    /\ flt = IdleFilter
    /\ scr = IdleScraper
    /\ vie = IdleVie
    /\ lst = IdleListing
    /\ IdIdle
    /\ GwIdle
    /\ PrIdle
    /\ JoIdle

NextBrowser ==
    \/ SetupBrowser
    \/ TryBlock
    \/ CleanupBrowser
    \/ NextScrape

SpecBrowser == InitBrowser /\ [][NextBrowser]_vars

InitNotionFormat ==
    /\ \E self \in FormattedOffers,
          job_content_description \in {NoDescription} \cup {Description(Repeated(n)) : n \in 0..MaxDescription} :
         fmt = InitialFormat(self, job_content_description)
    /\ jo = IdleJobOffer
    /\ store = <<>>
    /\ IdIdle
    /\ GwIdle
    /\ PrIdle
    /\ ScIdle

NextNotionFormat == ToNotionFormat

SpecNotionFormat == InitNotionFormat /\ [][NextNotionFormat]_vars

SpecFilter == InitFilter /\ [][NextFilter]_vars

-----------------------------------------------------------------------------
(* Properties of create_page_from_job_offer                                *)

CreateCall(t) == task[t].op = "create_page_from_job_offer"
Done(t) == task[t].pc = "done"
OfferIdOf(t) == task[t].offers[1].offer_id

\* C1: two create_page_from_job_offer calls for the same identity, on a database
\* that held no record of it, end as one Created and one AlreadyExists under
\* every interleaving of their check and write steps, and the database never
\* holds two records of that identity.  (Stated for calls in which no request
\* to the store raised.)
C1_AtMostOneCreation ==
    \A a, b \in Tasks :
        ( /\ a # b
          /\ CreateCall(a) /\ CreateCall(b)
          /\ OfferIdOf(a) = OfferIdOf(b)
          /\ ~HasRecord(StoreAt(task[a].before), OfferIdOf(a))
          /\ ~HasRecord(StoreAt(task[b].before), OfferIdOf(a))
          /\ task[a].raised = {} /\ task[b].raised = {} )
        => /\ Cardinality(Query(store, {OfferIdOf(a)})) <= 1
           /\ (Done(a) /\ Done(b)) => {task[a].outcome, task[b].outcome} = {"Created", "AlreadyExists"}

\* C6: when the database holds a record of the offer's identity at the time
\* create_page_from_job_offer is called, the call writes nothing and ends as
\* AlreadyExists.
C6_ExistingIsNotWritten ==
    \A t \in Tasks :
        (CreateCall(t) /\ HasRecord(StoreAt(task[t].before), OfferIdOf(t)))
        => /\ task[t].wrote = {}
           /\ Done(t) => (task[t].outcome = "AlreadyExists" /\ task[t].ret = None)

\* C7: when the existence lookup of create_page_from_job_offer raises, the call
\* ends as Failed and requests no write.
C7_FailedLookupIsFailed ==
    \A t \in Tasks :
        (CreateCall(t) /\ "check" \in task[t].raised)
        => /\ task[t].pc # "write"
           /\ task[t].wrote = {}
           /\ Done(t) => task[t].outcome = "Failed"

-----------------------------------------------------------------------------
(* Properties of the batch operations                                      *)

CheckCall(t) == task[t].op = "check_multiple_offers_exist"
BatchCall(t) == task[t].op = "create_pages_from_job_offers"

\* C3: _check_multiple_offers_exist returns a map whose keys are exactly the
\* requested identities and whose value for an identity is true if and only if
\* the database held a record with that Offer ID when it was called; the empty
\* list gives the empty map.
C3_ExistenceMapIsExact ==
    \A t \in Tasks :
        (CheckCall(t) /\ Done(t))
        => /\ DOMAIN task[t].ret = Range(task[t].ids)
           /\ \A x \in Range(task[t].ids) : task[t].ret[x] = HasRecord(StoreAt(task[t].before), x)

\* C9: create_pages_from_job_offers returns one result per input offer, in
\* input order; an offer the batch check reported as existing is not written;
\* every other offer gets its write request, whatever happened to the writes
\* before it.
C9_BatchResults ==
    \A t \in Tasks :
        (BatchCall(t) /\ Done(t))
        => /\ Len(task[t].ret) = Len(task[t].offers)
           /\ \A n \in 1..Len(task[t].offers) :
                LET o == task[t].offers[n]
                    r == task[t].ret[n]
                IN  /\ DictGet(task[t].exists, o.offer_id) => (r = None /\ n \notin task[t].attempted)
                    /\ ~DictGet(task[t].exists, o.offer_id) => n \in task[t].attempted
                    /\ r # None => (r \in Range(store) /\ r.properties = to_notion_format(o))
           /\ Cardinality(task[t].wrote) = Cardinality({n \in 1..Len(task[t].ret) : task[t].ret[n] # None})

C9_SkipThenFailureThenWrite ==
    \E t \in Tasks :
        /\ BatchCall(t) /\ Done(t)
        /\ \E l, m, n \in 1..Len(task[t].offers) :
             /\ DictGet(task[t].exists, task[t].offers[l].offer_id)
             /\ task[t].ret[l] = None
             /\ m < n
             /\ m \in task[t].attempted /\ task[t].ret[m] = None
             /\ n \in task[t].attempted /\ task[t].ret[n] # None

\* C10: after create_pages_from_job_offers, the database holds at most one
\* record of each identity that was absent before the call (no other task
\* writing), also when the input holds two offers of the same identity.
C10_BatchAtMostOneRecord ==
    \A t \in Tasks :
        (BatchCall(t) /\ Done(t) /\ \A u \in Tasks \ {t} : task[u].pc = "idle")
        => \A x \in OfferIds :
             ~HasRecord(StoreAt(task[t].before), x) => Cardinality(Query(store, {x})) <= 1

-----------------------------------------------------------------------------
(* Properties of the identity function                                     *)

\* C2: for every (company, title, url), generate_job_offer_id gives the same
\* identity for (company, title, url) and for (upper(company), title followed
\* by two spaces, url followed by "?x=1").
C2_IdentityInsensitive ==
    (id1 # NoId /\ id2 # NoId) => id1 = id2

-----------------------------------------------------------------------------
(* Properties of OfferProcessor                                            *)

\* number of SMS sent for the j-th offer of the batch, in this call of process_offers
SmsCount(j) == Cardinality({n \in 1..Len(sms) : sms[n].run = proc.run /\ sms[n].j = j})

\* C4: while a batch is processed, the notifier has been called exactly once
\* for each offer whose creation result is Created and never for an offer
\* skipped as existing or whose creation failed; no identity is notified twice.
C4_NotifiedIffCreated ==
    /\ \A j \in 1..Len(proc.outcome) :
         SmsCount(j) = IF proc.outcome[j] = "Created" THEN 1 ELSE 0
    /\ \A m, n \in 1..Len(sms) :
         m # n => sms[m].offer.offer_id # sms[n].offer.offer_id

\* the offers of the runs that returned, concatenated in order
RECURSIVE ConcatReturned(_)
ConcatReturned(runs) ==
    IF runs = <<>> THEN <<>>
    ELSE (IF Head(runs).status = "Returned" THEN Head(runs).offers ELSE <<>>) \o ConcatReturned(Tail(runs))

ScrapeFinished == proc.pc \in {"process", "loop", "done", "error"}

\* C5: when scrape() of a selected source raises, scrape_offers still runs
\* every other selected (configured) source, and the aggregated list is the
\* concatenation, in selection order, of what the sources that did not fail
\* returned.
C5_FailedSourceIsIsolated ==
    /\ proc.all_offers = ConcatReturned(proc.runs)
    /\ ScrapeFinished =>
         /\ Len(proc.runs) = Len(proc.selected_scrapers)
         /\ \A n \in 1..Len(proc.runs) :
              proc.selected_scrapers[n] \in DOMAIN ScrapersConfig => proc.runs[n].status # "NotRun"
         /\ proc.scraped_offers = ConcatReturned(proc.runs)

C5_FailureThenResults ==
    /\ ScrapeFinished
    /\ \E m, n \in 1..Len(proc.runs) :
         /\ m < n
         /\ proc.runs[m].status = "Failed"
         /\ proc.runs[n].status = "Returned"
         /\ proc.runs[n].offers # <<>>
         /\ proc.scraped_offers = proc.runs[n].offers

-----------------------------------------------------------------------------
(* Properties of a second call of process_offers                           *)

SecondCall == proc.run = 2 /\ proc.pc \in {"loop", "done", "error"}

\* C11: when process_offers is called a second time on the same list, after a
\* first call that returned and in which no creation failed, and with the
\* existence query of the second call answered (not raising), the second call
\* creates no page, sends no SMS, skips every offer as existing, and leaves
\* the database as the first call left it.
C11_RetryIsIdempotent ==
    (SecondCall /\ ~proc.checkRaised /\ proc.first.completed
        /\ "Failed" \notin Range(proc.first.outcome)) =>
        /\ Len(store) = proc.first.store
        /\ Len(sms) = proc.first.sms
        /\ proc.pc # "error"
        /\ \A n \in 1..Len(proc.outcome) : proc.outcome[n] = "AlreadyExists"

C11_RetryAfterCreations ==
    /\ proc.run = 2
    /\ proc.pc = "done"
    /\ ~proc.checkRaised
    /\ Len(proc.scraped_offers) >= 2
    /\ Len(proc.outcome) = Len(proc.scraped_offers)
    /\ proc.first.completed
    /\ "Failed" \notin Range(proc.first.outcome)
    /\ "Created" \in Range(proc.first.outcome)
    /\ proc.first.sms > 0

-----------------------------------------------------------------------------
(* Properties of the existence decision and of a whole run                 *)

\* the pages of the database that carry the identifying field of the offer;
\* the title stands for the identifying fields (company, title, url) of an offer
PagesEqualTo(db, offer) == {n \in 1..Len(db) : extract_title(db[n].properties) = offer.title}

\* C12: an offer is skipped as already existing only when the database holds
\* a page equal to it on the identifying fields; an offer whose 5-digit
\* identity is that of a different stored offer is not skipped.
C12_ExistingOnlyOnEqualFields ==
    \A j \in 1..Len(proc.outcome) :
        proc.outcome[j] = "AlreadyExists" => PagesEqualTo(store, proc.scraped_offers[j]) # {}

\* the offers of the processed list that the batch existence check reported
PreExisting == {j \in 1..Len(proc.scraped_offers) :
                  DictGet(proc.existence_map, proc.scraped_offers[j].offer_id)}

\* C13: a run whose sources returned m offers (those that passed the title
\* filters), d of them reported by the store as existing, ends with exactly
\* m - d pages created and exactly m - d SMS sent.
C13_CreatedAndNotifiedCounts ==
    (proc.pc = "done" /\ proc.scraped_offers # <<>>) =>
        LET m == Len(proc.scraped_offers)
            d == Cardinality(PreExisting)
        IN  /\ Cardinality({j \in 1..Len(proc.outcome) : proc.outcome[j] = "Created"}) = m - d
            /\ Len(sms) = m - d

-----------------------------------------------------------------------------
(* Properties of filter_job_title                                          *)

\* the keyword occurs in the title, letter case ignored
ContainsIgnoringCase(title, keyword) ==
    \E i \in 0..(Len(title) - Len(keyword)) :
        \A k \in 1..Len(keyword) : Lower(<<title[i + k]>>) = Lower(<<keyword[k]>>)

\* the list a call works with: the argument when given, else the scraper's own
ActiveFilters(arg, own) == IF arg.given THEN arg.list ELSE own

\* what the filter is specified to return for the call recorded in f
SkipExpected(f) ==
    LET include == ActiveFilters(f.include_filters, f.self_include)
        exclude == ActiveFilters(f.exclude_filters, f.self_exclude)
    IN  \/ include # <<>> /\ \A n \in 1..Len(include) : ~ContainsIgnoringCase(f.job_title, include[n])
        \/ exclude # <<>> /\ \E n \in 1..Len(exclude) : ContainsIgnoringCase(f.job_title, exclude[n])

-----------------------------------------------------------------------------
(* Properties of scrape_async                                              *)

\* the identities the bulk check reported as existing
Reported == {x \in DOMAIN scr.existence_results : scr.existence_results[x]}

\* the entries of a queue whose identity is not in `reported`, in queue order
RECURSIVE NotReported(_, _)
NotReported(queue, reported) ==
    IF queue = <<>> THEN <<>>
    ELSE (IF Head(queue).id \in reported THEN <<>> ELSE <<Head(queue)>>)
         \o NotReported(Tail(queue), reported)

\* C15: no detail page is requested before the queue has been bulk-checked;
\* once a non-empty queue has been checked, self._offers_urls is exactly the
\* entries of the queue whose identity the store did not report as existing,
\* in their order, and no detail page is requested for a reported identity.
C15_QueueFilteredBeforeVisits ==
    /\ scr.pc \in {"extract", "filter"} => scr.visited = <<>>
    /\ scr.queued # <<>> =>
         /\ DOMAIN scr.existence_results = {scr.queued[n].id : n \in 1..Len(scr.queued)}
         /\ scr.offers_urls = NotReported(scr.queued, Reported)
         /\ \A n \in 1..Len(scr.visited) : scr.visited[n].id \notin Reported

C15_SomeDroppedSomeVisited ==
    /\ scr.pc = "done"
    /\ Len(scr.queued) = 3
    /\ Reported # {}
    /\ Len(scr.offers_urls) = 2
    /\ scr.visited = scr.offers_urls

\* a sequence of numbers in strictly increasing order
Increasing(s) == \A m, n \in 1..Len(s) : m < n => s[m] < s[n]

\* the queue positions of a list of records that carry one
Entries(records) == [n \in 1..Len(records) |-> records[n].entry]

\* C16: an exception while one queued entry is visited and extracted, or
\* while its raw record is validated, drops that entry only: the entries are
\* visited one after the other in queue order, the raw records are those of
\* the entries that did not fail, the run does not fail once parsing has
\* begun, and it ends with the validated offers of the remaining entries.
C16_ItemFailureIsIsolated ==
    /\ scr.pc = "parse" => scr.visited = SubSeq(scr.offers_urls, 1, scr.i - 1)
    /\ scr.pc = "failed" => scr.visited = <<>>
    /\ (scr.pc \in {"convert", "done"} /\ scr.queued # <<>>) => scr.visited = scr.offers_urls
    /\ Increasing(Entries(scr.raw_offers))
    /\ Range(Entries(scr.raw_offers)) = (1..Len(scr.visited)) \ scr.failed
    /\ scr.pc = "done" =>
         /\ Increasing(Entries(scr.validated_offers))
         /\ Range(Entries(scr.validated_offers))
              = {r.entry : r \in {x \in Range(scr.raw_offers) : to_job_offer(x.input).ok}}
         /\ \A v \in Range(scr.validated_offers) :
              \E r \in Range(scr.raw_offers) :
                  r.entry = v.entry /\ to_job_offer(r.input) = Valid(v.offer)

C16_FailureAndRejectionDropped ==
    /\ scr.pc = "done"
    /\ Len(scr.offers_urls) = 3
    /\ scr.failed = {2}
    /\ Entries(scr.raw_offers) = <<1, 3>>
    /\ Entries(scr.validated_offers) = <<3>>

-----------------------------------------------------------------------------
(* Properties of the VIE scraper                                           *)

\* the click after which the number of items no longer increased: the last
\* click that increased it, and the first click when none did
PlateauClick == IF vie.lastIncrease > 1 THEN vie.lastIncrease ELSE 1

\* C17: once the number of visible items has stopped increasing, the "see
\* more" loop makes at most max_attempts = 3 further clicks and is then over
\* (the counter of clicks without a change is below 3 while the loop runs,
\* and is reset by a click that changes the count); parse_offers then reads
\* the items shown once each: at most one raw record per item, in item order,
\* for items of the page only.
C17_PaginationStops ==
    /\ vie.clicks <= PlateauClick + max_attempts
    /\ vie.clicks = PlateauClick + max_attempts => vie.pc # "click"
    /\ vie.pc = "click" =>
         /\ vie.no_change_attempts < max_attempts
         /\ vie.no_change_attempts <= vie.clicks - vie.lastIncrease
    /\ \A n \in 1..Len(vie.offers) : vie.offers[n].item \in 1..vie.visible
    /\ \A m, n \in 1..Len(vie.offers) : m < n => vie.offers[m].item < vie.offers[n].item
    /\ vie.pc = "done" /\ vie.visible > 0 => vie.i = vie.visible + 1

C17_StoppedAfterPlateau ==
    /\ vie.pc = "done"
    /\ vie.lastIncrease = 3
    /\ vie.clicks = vie.lastIncrease + max_attempts
    /\ vie.visible = MaxItems
    /\ Len(vie.offers) = 2

-----------------------------------------------------------------------------
(* Properties of JobOffer                                                  *)

\* C18: the offer_id of a JobOffer that passed validation, generated or
\* supplied, is exactly 5 characters, each an ASCII digit, and so is the
\* identity generate_job_offer_id computes from its fields.
C18_FiveAsciiDigits ==
    jo.state = "valid" =>
        /\ Len(jo.fields.offer_id) = 5
        /\ \A i \in 1..Len(jo.fields.offer_id) : jo.fields.offer_id[i] \in AsciiDigits
        /\ Len(generate_job_offer_id(jo.fields.company, jo.fields.title, jo.fields.url)) = 5
        /\ Range(offer_id_chars(jo.fields.company, jo.fields.title, jo.fields.url)) \subseteq AsciiDigits

\* C19: in every state of a validated JobOffer (constructed with or without
\* an offer_id, after an assignment to title, company or url, after
\* regenerate_id) offer_id is generate_job_offer_id of its current company,
\* title and url.
C19_IdentityFollowsFields ==
    jo.state = "valid" =>
        Join(jo.fields.offer_id) = generate_job_offer_id(jo.fields.company, jo.fields.title, jo.fields.url)

\* C20: the title, company and location of a JobOffer that passed
\* validation are not empty and are not "N/A" in any letter case.
C20_RequiredFieldsPresent ==
    jo.state = "valid" =>
        \A name \in {"title", "company", "location"} :
            /\ jo.fields[name] # <<>>
            /\ Upper(jo.fields[name]) # <<"N", "/", "A">>

\* a value in canonical form: no leading or trailing whitespace, no upper-case
\* letter, no two whitespace characters in a row, none of '-', ',', '.'
IsCanonical(v) ==
    /\ v # <<>> => v[1] \notin Whitespace /\ v[Len(v)] \notin Whitespace
    /\ \A i \in 1..Len(v) : v[i] \notin DOMAIN LowerOf /\ v[i] \notin {"-", ",", "."}
    /\ \A i \in 1..(Len(v) - 1) : ~(v[i] \in Whitespace /\ v[i + 1] \in Whitespace)

\* values the constructor accepts for company and location as they are
AcceptedAsIs(v) == IsCanonical(v) /\ v # <<>> /\ v # <<"n", "/", "a">>

\* C21: the company and location of every validated JobOffer are canonical
\* (trimmed, lower-case, single spaces inside, none of '-', ',', '.'), and
\* validating again a JobOffer whose company and location are canonical
\* values the constructor accepts succeeds and leaves company, location and
\* offer_id as they were.
C21_CanonicalCompanyAndLocation ==
    /\ jo.state = "valid" => IsCanonical(jo.fields.company) /\ IsCanonical(jo.fields.location)
    /\ (jo.op = "revalidate" /\ AcceptedAsIs(jo.before.company) /\ AcceptedAsIs(jo.before.location)) =>
          /\ jo.state = "valid"
          /\ jo.fields.company = jo.before.company
          /\ jo.fields.location = jo.before.location
          /\ jo.fields.offer_id = jo.before.offer_id

\* C21 witness: an offer whose company was cleaned, collapsed and lower-cased
\* to "a b" and whose location was cleaned to "b b" has been validated again
C21_CleanedThenRevalidated ==
    /\ jo.op = "revalidate"
    /\ jo.state = "valid"
    /\ jo.fields.company = <<"a", " ", "b">>
    /\ jo.fields.location = <<"b", " ", "b">>
    /\ jo.auto

\* C22: after regenerate_id the value it returned is the offer_id of the
\* instance, and when the offer_id had been generated from the company,
\* title and url the instance still holds, offer_id is what it was before.
C22_RegenerateIdIdempotent ==
    jo.op = "regenerate_id" =>
        /\ jo.returned = jo.fields.offer_id
        /\ jo.wasAuto => jo.returned = jo.before.offer_id /\ jo.fields = jo.before

\* C22 witness: regenerate_id ran on an offer whose identity was its
\* generated one and returned it
C22_RegeneratedSameId ==
    /\ jo.op = "regenerate_id"
    /\ jo.wasAuto
    /\ jo.returned = jo.before.offer_id
    /\ jo.fields = jo.before

-----------------------------------------------------------------------------
(* Properties of main.py                                                   *)

\* the credentials a run with this selection needs
RequiredCredentials(selected) ==
    {"DATABASE_ID", "NOTION_API", "FREE_MOBILE_USER_ID", "FREE_MOBILE_API_KEY"}
    \cup IF \E n \in 1..Len(selected) : ScrapersConfig[selected[n]].source = LINKEDIN
         THEN {"LINKEDIN_EMAIL", "LINKEDIN_PASSWORD"} ELSE {}

\* the run was started with an invalid selection or without a credential it needs
ConfigurationError ==
    LET r == parse_scraper_selection(main.scrapers, ScrapersConfig)
    IN  ~r.ok \/ ~(RequiredCredentials(r.value) \subseteq main.environ)

\* C23: a run started with a configuration error (a required credential
\* missing, an invalid selection) starts no source extractor, creates no
\* page and sends no notification, and exits with a non-zero status.
C23_ConfigurationErrorFailsFast ==
    (main.pc # "idle" /\ ConfigurationError) =>
        /\ proc.runs = <<>>
        /\ \A n \in 1..Len(proc.outcome) : proc.outcome[n] # "Created"
        /\ sms = <<>>
        /\ main.pc = "exited" => main.exit_code # 0

\* C24: when the process has exited and the run of at least one selected
\* source returned, the exit status is 0; the exit status is non-zero only
\* after a configuration error.
C24_ExitZeroWhenASourceSucceeded ==
    main.pc = "exited" =>
        /\ (\E n \in 1..Len(proc.runs) : proc.runs[n].status = "Returned") => main.exit_code = 0
        /\ main.exit_code # 0 => ConfigurationError

\* C25: every run of main.py ends, whether or not each scraper.scrape()
\* comes back.
C25_RunTerminates == <>(main.pc = "exited")

\* C26: the NotionClient that main.py constructs holds the database id and
\* the API client and nothing read from the database, and the existence map
\* of process_offers, when its request did not raise, answers for every
\* offer whether the database holds its Offer ID at the time of the call,
\* pages created since the construction included.
C26_ExistenceIsQueriedOnDemand ==
    /\ main.pc = "workflow" =>
          main.notion_client = [database_id |-> "DATABASE_ID", client |-> [auth |-> "NOTION_API"]]
    /\ (main.pc = "workflow" /\ proc.pc \in {"loop", "done", "error"} /\ proc.j >= 1 /\ ~proc.checkRaised) =>
          \A n \in 1..Len(proc.scraped_offers) :
              DictGet(proc.existence_map, proc.scraped_offers[n].offer_id)
                  = HasRecord(StoreAt(proc.checked_at), proc.scraped_offers[n].offer_id)

\* C26 witness: an offer is reported as existing through a page that was
\* created after NotionClient was constructed
C26_SeesPageCreatedAfterConstruction ==
    /\ main.pc = "workflow"
    /\ proc.pc = "loop"
    /\ ~proc.checkRaised
    /\ \E n \in 1..Len(proc.scraped_offers) :
          /\ DictGet(proc.existence_map, proc.scraped_offers[n].offer_id)
          /\ ~HasRecord(StoreAt(main.created_at), proc.scraped_offers[n].offer_id)

-----------------------------------------------------------------------------
(* Properties of the reduction modulo 100000                               *)

\* C27 (as stated): every identity is the image of as many prefix values as
\* the identity 00000.
C27_UniformReduction ==
    red.offer_id # NoId =>
        Cardinality(PrefixesOf(red.hash_int % IdModulus)) = Cardinality(PrefixesOf(0))

\* C27 (amended): the prefix is one of the values that reduce to its
\* identity, and an identity is the image of 11 prefix values when it is at
\* most 48575 and of 10 when it is larger (2^20 = 10 * 100000 + 48576).
C27_TenOrElevenPrefixes ==
    red.offer_id # NoId =>
        LET identity == red.hash_int % IdModulus
        IN  /\ red.offer_id = Format05d(identity)
            /\ red.hash_int \in PrefixesOf(identity)
            /\ Cardinality(PrefixesOf(identity)) = IF identity <= 48575 THEN 11 ELSE 10

\* C27 witness: a prefix was reduced to an identity above 48575, which has
\* 10 prefix values, one fewer than the identity 00000
C27_IdentityWithTenPrefixes ==
    /\ red.offer_id # NoId
    /\ red.hash_int % IdModulus > 48575
    /\ Cardinality(PrefixesOf(red.hash_int % IdModulus)) = 10
    /\ Cardinality(PrefixesOf(0)) = 11

-----------------------------------------------------------------------------
(* Properties of the paged scrapers                                        *)

\* the listing items of the pages the loop has read that pass the filter
PassesFilter(item) ==
    ~filter_job_title(ListingIncludeFilters, ListingExcludeFilters, item.title,
                      Given(ListingIncludeFilters), Given(ListingExcludeFilters))

\* extract_all_offers_url has ended without raising
ListingEnded == lst.pc \in {"filter", "parse", "convert", "returned"}

\* C28: for every posting the scraper returns, the identity enqueued during
\* pagination (listing title, source-specific company, listing href) equals
\* the offer_id of the validated JobOffer made from that queue entry.
C28_QueueIdentityIsOfferId ==
    \A n \in 1..Len(lst.validated_offers) :
        lst.validated_offers[n].entry.id = Join(lst.validated_offers[n].offer.offer_id)

\* C29: when the listing page cannot be loaded, or the listing-item selector
\* never appears within its timeout, the run of the source ends in Failed:
\* scrape never returns a list, empty or partial.
C29_UnrecognisedListingFails ==
    lst.timed_out # {} => lst.pc # "returned"

\* C30: the total-count indicator is a stopping hint only: when it is
\* missing, unreadable or lower than the number of visible items (zero
\* included), every visible listing item that passes the filter is collected.
C30_TotalCountIsOnlyAHint ==
    (/\ lst.source = WELCOME_TO_THE_JUNGLE
     /\ ListingEnded
     /\ lst.indicator < Len(lst.site[1]))
    => \A n \in 1..Len(lst.site[1]) :
          PassesFilter(lst.site[1][n])
          => \E q \in 1..Len(lst.queued) : lst.queued[q] = queue_entry(lst.source, lst.site[1][n])

\* C31: where the listing shows a total count, the pagination loop stops as
\* soon as the number of listing items read reaches it, whether or not a
\* next-page control is still there: the loop never starts another
\* iteration with the indicated total already read.
C31_LoopStopsAtIndicatedTotal ==
    (lst.pc = "page" /\ lst.indicator > 0) => lst.loaded_offers < lst.total_offers

\* the urls of the listing items of a site, page after page
RECURSIVE UrlsShown(_)
UrlsShown(site) ==
    IF site = <<>> THEN <<>>
    ELSE [n \in 1..Len(Head(site)) |-> Head(site)[n].url] \o UrlsShown(Tail(site))

NoTwoEqual(s) == \A m, n \in 1..Len(s) : s[m] = s[n] => m = n

\* C32: at the end of pagination no two entries of the queue have the same
\* url: on a site that shows every posting once, reading a listing state
\* again (a click on next that leaves the listing as it was) enqueues
\* nothing a second time.
C32_QueueHoldsEachUrlOnce ==
    (ListingEnded /\ NoTwoEqual(UrlsShown(lst.site)))
    => NoTwoEqual([n \in 1..Len(lst.queued) |-> lst.queued[n].url])

\* C33: a transient failure of the user interface never ends the run of the
\* source: when the banner cannot be dismissed or a filter cannot be
\* applied, a failure of the handler recording it included, the extractor
\* goes on to the pagination.
C33_UiFailureIsNotFatal ==
    lst.ui \in {"banner_failed", "filter_failed", "handler_failed"} => lst.pc # "failed"

\* C34: only listing items whose title passes the filter are enqueued, so
\* no detail page is requested for an item whose title the filter rejects.
C34_NoVisitForRejectedTitle ==
    /\ \A q \in 1..Len(lst.queued) :
          \E p \in 1..Len(lst.site) : \E n \in 1..Len(lst.site[p]) :
             /\ PassesFilter(lst.site[p][n])
             /\ lst.queued[q] = queue_entry(lst.source, lst.site[p][n])
    /\ \A v \in 1..Len(lst.visited) :
          \E p \in 1..Len(lst.site) : \E n \in 1..Len(lst.site[p]) :
             /\ PassesFilter(lst.site[p][n])
             /\ lst.visited[v] = queue_entry(lst.source, lst.site[p][n]).url

-----------------------------------------------------------------------------
(* Properties of the requests of the batch existence check                 *)

\* C35: the batch existence check asks the store as little as can be: no
\* query for no identity, one equality query for one identity, one
\* disjunctive query over the identities for more than one.
C35_MinimumNumberOfQueries ==
    \A t \in Tasks :
        CheckCall(t) =>
            LET ids == task[t].ids
                queries == task[t].queries
            IN  /\ Len(ids) = 0 => queries = <<>>
                /\ Len(ids) = 1 => queries = << [kind |-> "equals", clauses |-> ids] >>
                /\ Len(ids) > 1 => /\ Len(queries) = 1
                                   /\ queries[1].kind = "or"
                                   /\ Range(queries[1].clauses) = Range(ids)

C35_OneDisjunctiveQuery ==
    \E t \in Tasks :
        /\ CheckCall(t)
        /\ Len(task[t].ids) > 1
        /\ Cardinality(Range(task[t].ids)) > 1
        /\ Len(task[t].queries) = 1
        /\ task[t].queries[1].kind = "or"

\* C36: the filter of every query of the batch existence check names each
\* distinct identity at most once: the input is de-duplicated before the
\* query is built.  (The code has no clause-count ceiling and never splits
\* an input over several queries.)
C36_EachIdentityOnceInFilter ==
    \A t \in Tasks :
        CheckCall(t) => \A q \in 1..Len(task[t].queries) : NoTwoEqual(task[t].queries[q].clauses)

-----------------------------------------------------------------------------
(* Properties of the notification of new postings                          *)

\* C37: a failure of the notifier for one new posting prevents neither the
\* creation of the record of that posting nor the processing of the
\* postings after it: when process_offers has ended, every posting handed
\* to it has been skipped as existing or sent to the store.
C37_NotifierFailureIsIsolated ==
    proc.pc \in {"done", "error"} => Len(proc.outcome) = Len(proc.scraped_offers)

-----------------------------------------------------------------------------
(* Properties of the browser resources                                     *)

\* C38: every browser resource a scrape run opens is released when the run
\* ends, whether scrape returns or raises and also when _setup_browser
\* fails part-way; a browser supplied by the caller is never closed.
C38_ResourcesReleasedAtEnd ==
    brw.pc = "ended" => (brw.open = {} /\ ~brw.supplied_closed)

-----------------------------------------------------------------------------
(* Properties of to_notion_format                                          *)

\* C39: in the store representation of a posting the "Offer ID" text is the
\* posting's offer_id, and the description text is never longer than 2000
\* characters, however long job_content_description is.
C39_OfferIdAndBoundedDescription ==
    fmt.pc = "done" =>
        /\ fmt.properties.OfferID = fmt.self.offer_id
        /\ Len(fmt.properties.JobContentDescription) <= RichTextLimit

C39_LongDescriptionFormatted ==
    /\ fmt.pc = "done"
    /\ ~fmt.job_content_description.none
    /\ Len(fmt.job_content_description.value) > RichTextLimit
    /\ Len(fmt.properties.JobContentDescription) = JobContentLimit + 3
    /\ fmt.properties.OfferID = fmt.self.offer_id

====
